---- MODULE Spec2Model ----
(***************************************************************************)
(* LegalLens: the rule-based document engine behind the API routes.        *)
(*                                                                         *)
(*   src/pages/api/analyze.ts  analyzeDocumentClauses, calculateOverall-   *)
(*                             RiskScore                                   *)
(*   src/unnamed/part_002      the visualization route: extractClauses,    *)
(*                             analyzeClause, generateRelationships,       *)
(*                             findRelationship                            *)
(*   src/unnamed/part_001      the chat route: generateRuleBasedAnswer,    *)
(*                             its topic handlers, extractRelevantSentences*)
(*   src/pages/api/summarize.ts  the summarize route: its handler,         *)
(*                             ruleBasedSummarization, extractKeyPoints    *)
(*                                                                         *)
(* Texts are TLA+ strings; the JavaScript string primitives the handlers   *)
(* use (includes, startsWith, toLowerCase, trim, split, RegExp.test) are   *)
(* operators over them, computed character by character.                   *)
(***************************************************************************)
EXTENDS Integers, Sequences, FiniteSets, TLC

VARIABLES
    req,            \* the request body being served
    pc,             \* "start" before the handler ran, "done" after, in
                    \* between the name of the call it awaits
    status,         \* HTTP status of the response (0: none yet)
    clauses,        \* analyze: the Clause[] of the response;
                    \* visualize: the clause texts extractClauses returned
    riskScore,      \* analyze: the riskScore of the response
    nodes,          \* visualize: flowData.nodes
    relationships,  \* visualize: flowData.relationships
    answer,         \* chat: the answer of the response;
                    \* ruleBasedSummarization: the string it returns
    summaryResult,  \* summarize: the SummaryResult of the response
    calls,          \* the routes: the functions the handler has called
    segmented,      \* extractClauses: sentences, the segmented text
    buffer,         \* extractClauses: currentClause, the buffer of the loop
    position,       \* extractClauses: the sentence the loop is at
    scored,         \* ruleBasedSummarization: scoredSentences
    hook,           \* useChat, useDocumentAnalysis: the useState values
    abortControllerRef, \* the hooks: abortControllerRef.current (0: null)
    controllers,    \* the hooks: signal.aborted of every AbortController made
    runs,           \* the hooks: the calls of sendMessage / analyzeDocument
    storage,        \* the hooks: what storage holds under the hook's key
    attempt,        \* retry: the loop variable
    issued,         \* retry: the outcome of every fn() issued so far
    lastError       \* retry: lastError

\* what the hooks and retry hold in the browser
clientVars == <<hook, abortControllerRef, controllers, runs, storage,
                attempt, issued, lastError>>

\* what the routes and their helpers hold on the server
serverVars == <<req, pc, status, clauses, riskScore, nodes, relationships, answer,
                summaryResult, calls, segmented, buffer, position, scored>>

vars == <<serverVars, clientVars>>

(***************************************************************************)
(* JavaScript string primitives                                            *)
(***************************************************************************)

\* s.charAt(i - 1)
CharAt(s, i) == SubSeq(s, i, i)

\* s.substring(i - 1): the rest of s from position i
From(s, i) == SubSeq(s, i, Len(s))

\* The letters String.prototype.toLowerCase changes into a letter a TLA+
\* string can hold (a string holds the characters below U+0100 and those
\* whose code ends in a byte of 80 to FF), and under each its small letter:
\* A to Z, then the Unicode 17 lower-case mapping of the letters beyond ASCII.
Upper ==
    "ABCDEFGHIJKLMNOPQRSTUVWXYZÀÁÂÃÄÅÆÇÈÉÊËÌÍÎÏÐÑÒÓÔÕÖØÙÚÛÜÝÞƂƄƇƋƎƑƘƠ" \o
    "ƢƤƦƧƩƬƮƯƱƲƳƵƷƸƼǄǅǇǈǊǋǍǏǑǓǕǗǙǛǞǠǢǤǦǨǪǬǮǱǲǴǶǷǸǺǼǾΆΈΉΊΌΎΏΑΒΓΔΕΖΗΘΙΚ" \o
    "ΛΜΝΞΟΠΡΣΤΥΦΧΨΩΪΫϏϘϚϜϞϠϢϤϦϨϪϬϮϴϷϹϺҀҊҌҎҐҒҔҖҘҚҜҞҠҢҤҦҨҪҬҮҰҲҴҶҸҺҼҾӀӁӃ" \o
    "ӅӇӉӋӍӐӒӔӖӘӚӜӞӠӢӤӦӨӪӬӮӰӲӴӶӸӺӼӾᎰᎱᎲᎳᎴᎵᎶᎷᎸᎹᎺᎻᎼᎽᎾᎿᏀᏁᏂᏃᏄᏅᏆᏇᏈᏉᏊᏋᏌᏍᏎᏏᏐᏑᏒ" \o
    "ᏓᏔᏕᏖᏗᏘᏙᏚᏛᏜᏝᏞᏟᏠᏡᏢᏣᏤᏥᏦᏧᏨᏩᏪᏫᏬᏭᏮᏯᏰᏱᏲᏳᏴᏵᲉᲐᲑᲒᲓᲔᲕᲖᲗᲘᲙᲚᲛᲜᲝᲞᲟᲠᲡᲢᲣᲤᲥᲦᲧᲨᲩᲪᲫ" \o
    "ᲬᲭᲮᲯᲰᲱᲲᲳᲴᲵᲶᲷᲸᲹᲺᲽᲾᲿẀẂẄẆẈẊẌẎẐẒẔẞẠẢẤẦẨẪẬẮẰẲẴẶẸẺẼẾỀỂỄỆỈỊỌỎỐỒỔỖỘỚỜỞỠỢ" \o
    "ỤỦỨỪỬỮỰỲỴỶỸỺỼỾᾈᾉᾊᾋᾌᾍᾎᾏᾘᾙᾚᾛᾜᾝᾞᾟᾨᾩᾪᾫᾬᾭᾮᾯᾸᾹᾼῌῘῙῨῩῬῼↃⒶⒷⒸⒹⒺⒻⒼⒽⒾⒿⓀⓁⓂⓃⓄ" \o
    "ⓅⓆⓇⓈⓉⓊⓋⓌⓍⓎⓏⲀⲂⲄⲆⲈⲊⲌⲎⲐⲒⲔⲖⲘⲚⲜⲞⲠⲢⲤⲦⲨⲪⲬⲮⲰⲲⲴⲶⲸⲺⲼⲾⳀⳂⳄⳆⳈⳊⳌⳎⳐⳒⳔⳖⳘⳚⳜⳞⳠⳢⳫⳭⳲ" \o
    "ꚀꚂꚄꚆꚈꚊꚌꚎꚐꚒꚔꚖꚘꚚꞀꞂꞄꞆꞋꞐꞒꞖꞘꞚꞜꞞꞠꞢꞤꞦꞨꞰꞱꞲꞴꞶꞸꞺꞼꞾꟀꟂꟄꟅꟆꟇꟉꟌ꟎Ꟑ꟒꟔ꟖꟘꟚꟜꟵ"
Lower ==
    "abcdefghijklmnopqrstuvwxyzàáâãäåæçèéêëìíîïðñòóôõöøùúûüýþƃƅƈƌǝƒƙơ" \o
    "ƣƥʀƨʃƭʈưʊʋƴƶʒƹƽǆǆǉǉǌǌǎǐǒǔǖǘǚǜǟǡǣǥǧǩǫǭǯǳǳǵƕƿǹǻǽǿάέήίόύώαβγδεζηθικ" \o
    "λμνξοπρστυφχψωϊϋϗϙϛϝϟϡϣϥϧϩϫϭϯθϸϲϻҁҋҍҏґғҕҗҙқҝҟҡңҥҧҩҫҭүұҳҵҷҹһҽҿӏӂӄ" \o
    "ӆӈӊӌӎӑӓӕӗәӛӝӟӡӣӥӧөӫӭӯӱӳӵӷӹӻӽӿꮀꮁꮂꮃꮄꮅꮆꮇꮈꮉꮊꮋꮌꮍꮎꮏꮐꮑꮒꮓꮔꮕꮖꮗꮘꮙꮚꮛꮜꮝꮞꮟꮠꮡꮢ" \o
    "ꮣꮤꮥꮦꮧꮨꮩꮪꮫꮬꮭꮮꮯꮰꮱꮲꮳꮴꮵꮶꮷꮸꮹꮺꮻꮼꮽꮾꮿᏸᏹᏺᏻᏼᏽᲊაბგდევზთიკლმნოპჟრსტუფქღყშჩცძ" \o
    "წჭხჯჰჱჲჳჴჵჶჷჸჹჺჽჾჿẁẃẅẇẉẋẍẏẑẓẕßạảấầẩẫậắằẳẵặẹẻẽếềểễệỉịọỏốồổỗộớờởỡợ" \o
    "ụủứừửữựỳỵỷỹỻỽỿᾀᾁᾂᾃᾄᾅᾆᾇᾐᾑᾒᾓᾔᾕᾖᾗᾠᾡᾢᾣᾤᾥᾦᾧᾰᾱᾳῃῐῑῠῡῥῳↄⓐⓑⓒⓓⓔⓕⓖⓗⓘⓙⓚⓛⓜⓝⓞ" \o
    "ⓟⓠⓡⓢⓣⓤⓥⓦⓧⓨⓩⲁⲃⲅⲇⲉⲋⲍⲏⲑⲓⲕⲗⲙⲛⲝⲟⲡⲣⲥⲧⲩⲫⲭⲯⲱⲳⲵⲷⲹⲻⲽⲿⳁⳃⳅⳇⳉⳋⳍⳏⳑⳓⳕⳗⳙⳛⳝⳟⳡⳣⳬⳮⳳ" \o
    "ꚁꚃꚅꚇꚉꚋꚍꚏꚑꚓꚕꚗꚙꚛꞁꞃꞅꞇꞌꞑꞓꞗꞙꞛꞝꞟꞡꞣꞥꞧꞩʞʇʝꞵꞷꞹꞻꞽꞿꟁꟃꞔʂᶎꟈꟊꟍ꟏ꟑꟓꟕꟗꟙꟛƛꟶ"

\* The capitals toLowerCase changes into a letter no string can hold, such
\* as U+0181, whose small letter is U+0253.
UpperOnly ==
    "ƁƆƉƊƏƐƓƔƖƗƜƝƟϽϾϿႠႡႢႣႤႥႦႧႨႩႪႫႬႭႮႯႰႱႲႳႴႵႶႷႸႹႺႻႼႽႾႿჀჁჂჃჄჅჇჍᎠᎡᎢᎣᎤᎥᎦᎧ" \o
    "ᎨᎩᎪᎫᎬᎭᎮᎯᾺΆῈΈῊΉῚΊῪΎῸΌῺΏꞍꞪꞫꞬꞭꞮꞳꟋ"

CharsOf(s) == {CharAt(s, k) : k \in 1..Len(s)}

LowerOf ==
    [c \in CharsOf(Upper) |->
        CharAt(Lower, CHOOSE k \in 1..Len(Upper) : CharAt(Upper, k) = c)]

\* the letters toLowerCase changes
Changed == CharsOf(Upper) \cup CharsOf(UpperOnly)

\* the small letter of a letter that has one, any other character itself;
\* of a capital in UpperOnly no string is the small letter, and LowerOf has
\* no value
LowerChar(c) == IF c \in Changed THEN LowerOf[c] ELSE c

\* the characters with the Unicode property Cased, of those a string can hold
Cased == CharsOf(
    "ABCDEFGHIJKLMNOPQRSTUVWXYZabcdefghijklmnopqrstuvwxyzªµºÀÁÂÃÄÅÆÇÈ" \o
    "ÉÊËÌÍÎÏÐÑÒÓÔÕÖØÙÚÛÜÝÞßàáâãäåæçèéêëìíîïðñòóôõöøùúûüýþÿƀƁƂƃƄƅƆƇƈƉƊ" \o
    "ƋƌƍƎƏƐƑƒƓƔƕƖƗƘƙƚƛƜƝƞƟƠơƢƣƤƥƦƧƨƩƪƫƬƭƮƯưƱƲƳƴƵƶƷƸƹƺƼƽƾƿǄǅǆǇǈǉǊǋǌǍǎǏ" \o
    "ǐǑǒǓǔǕǖǗǘǙǚǛǜǝǞǟǠǡǢǣǤǥǦǧǨǩǪǫǬǭǮǯǰǱǲǳǴǵǶǷǸǹǺǻǼǽǾǿʀʁʂʃʄʅʆʇʈʉʊʋʌʍʎʏ" \o
    "ʐʑʒʓʖʗʘʙʚʛʜʝʞʟʠʡʢʣʤʥʦʧʨʩʪʫʬʭʮʯʰʱʲʳʴʵʶʷʸˀˁˠˡˢˣˤΆΈΉΊΌΎΏΐΑΒΓΔΕΖΗΘΙΚ" \o
    "ΛΜΝΞΟΠΡΣΤΥΦΧΨΩΪΫάέήίΰαβγδεζηθικλμνξοπρςστυφχψωϊϋόύώϏϐϑϒϓϔϕϖϗϘϙϚϛ" \o
    "ϜϝϞϟϠϡϢϣϤϥϦϧϨϩϪϫϬϭϮϯϰϱϲϳϴϵϷϸϹϺϻϼϽϾϿҀҁҊҋҌҍҎҏҐґҒғҔҕҖҗҘҙҚқҜҝҞҟҠҡҢңҤ" \o
    "ҥҦҧҨҩҪҫҬҭҮүҰұҲҳҴҵҶҷҸҹҺһҼҽҾҿӀӁӂӃӄӅӆӇӈӉӊӋӌӍӎӏӐӑӒӓӔӕӖӗӘәӚӛӜӝӞӟӠӡӢӣӤ" \o
    "ӥӦӧӨөӪӫӬӭӮӯӰӱӲӳӴӵӶӷӸӹӺӻӼӽӾӿրցւփքօֆևֈႠႡႢႣႤႥႦႧႨႩႪႫႬႭႮႯႰႱႲႳႴႵႶႷႸႹႺႻ" \o
    "ႼႽႾႿჀჁჂჃჄჅჇჍაბგდევზთიკლმნოპჟრსტუფქღყშჩცძწჭხჯჰჱჲჳჴჵჶჷჸჹჺჼჽჾჿᎠᎡᎢᎣᎤ" \o
    "ᎥᎦᎧᎨᎩᎪᎫᎬᎭᎮᎯᎰᎱᎲᎳᎴᎵᎶᎷᎸᎹᎺᎻᎼᎽᎾᎿᏀᏁᏂᏃᏄᏅᏆᏇᏈᏉᏊᏋᏌᏍᏎᏏᏐᏑᏒᏓᏔᏕᏖᏗᏘᏙᏚᏛᏜᏝᏞᏟᏠᏡᏢᏣᏤ" \o
    "ᏥᏦᏧᏨᏩᏪᏫᏬᏭᏮᏯᏰᏱᏲᏳᏴᏵᏸᏹᏺᏻᏼᏽᲀᲁᲂᲃᲄᲅᲆᲇᲈᲉᲊᲐᲑᲒᲓᲔᲕᲖᲗᲘᲙᲚᲛᲜᲝᲞᲟᲠᲡᲢᲣᲤᲥᲦᲧᲨᲩᲪᲫᲬᲭ" \o
    "ᲮᲯᲰᲱᲲᲳᲴᲵᲶᲷᲸᲹᲺᲽᲾᲿᶀᶁᶂᶃᶄᶅᶆᶇᶈᶉᶊᶋᶌᶍᶎᶏᶐᶑᶒᶓᶔᶕᶖᶗᶘᶙᶚᶛᶜᶝᶞᶟᶠᶡᶢᶣᶤᶥᶦᶧᶨᶩᶪᶫᶬᶭᶮᶯ" \o
    "ᶰᶱᶲᶳᶴᶵᶶᶷᶸᶹᶺᶻᶼᶽᶾᶿẀẁẂẃẄẅẆẇẈẉẊẋẌẍẎẏẐẑẒẓẔẕẖẗẘẙẚẛẜẝẞẟẠạẢảẤấẦầẨẩẪẫẬậẮắ" \o
    "ẰằẲẳẴẵẶặẸẹẺẻẼẽẾếỀềỂểỄễỆệỈỉỊịỌọỎỏỐốỒồỔổỖỗỘộỚớỜờỞởỠỡỢợỤụỦủỨứỪừỬửỮữ" \o
    "ỰựỲỳỴỵỶỷỸỹỺỻỼỽỾỿᾀᾁᾂᾃᾄᾅᾆᾇᾈᾉᾊᾋᾌᾍᾎᾏᾐᾑᾒᾓᾔᾕᾖᾗᾘᾙᾚᾛᾜᾝᾞᾟᾠᾡᾢᾣᾤᾥᾦᾧᾨᾩᾪᾫᾬᾭᾮᾯ" \o
    "ᾰᾱᾲᾳᾴᾶᾷᾸᾹᾺΆᾼιῂῃῄῆῇῈΈῊΉῌῐῑῒΐῖῗῘῙῚΊῠῡῢΰῤῥῦῧῨῩῪΎῬῲῳῴῶῷῸΌῺΏῼₐₑₒₓₔₕₖₗ" \o
    "ₘₙₚₛₜↃↄⒶⒷⒸⒹⒺⒻⒼⒽⒾⒿⓀⓁⓂⓃⓄⓅⓆⓇⓈⓉⓊⓋⓌⓍⓎⓏⓐⓑⓒⓓⓔⓕⓖⓗⓘⓙⓚⓛⓜⓝⓞⓟⓠⓡⓢⓣⓤⓥⓦⓧⓨⓩⲀⲁⲂⲃⲄ" \o
    "ⲅⲆⲇⲈⲉⲊⲋⲌⲍⲎⲏⲐⲑⲒⲓⲔⲕⲖⲗⲘⲙⲚⲛⲜⲝⲞⲟⲠⲡⲢⲣⲤⲥⲦⲧⲨⲩⲪⲫⲬⲭⲮⲯⲰⲱⲲⲳⲴⲵⲶⲷⲸⲹⲺⲻⲼⲽⲾⲿⳀⳁⳂⳃⳄ" \o
    "ⳅⳆⳇⳈⳉⳊⳋⳌⳍⳎⳏⳐⳑⳒⳓⳔⳕⳖⳗⳘⳙⳚⳛⳜⳝⳞⳟⳠⳡⳢⳣⳤⳫⳬⳭⳮⳲⳳꚀꚁꚂꚃꚄꚅꚆꚇꚈꚉꚊꚋꚌꚍꚎꚏꚐꚑꚒꚓꚔꚕꚖꚗꚘꚙ" \o
    "ꚚꚛꚜꚝꞀꞁꞂꞃꞄꞅꞆꞇꞋꞌꞍꞎꞐꞑꞒꞓꞔꞕꞖꞗꞘꞙꞚꞛꞜꞝꞞꞟꞠꞡꞢꞣꞤꞥꞦꞧꞨꞩꞪꞫꞬꞭꞮꞯꞰꞱꞲꞳꞴꞵꞶꞷꞸꞹꞺꞻꞼꞽꞾꞿ" \o
    "ꟀꟁꟂꟃꟄꟅꟆꟇꟈꟉꟊꟋꟌꟍ꟎꟏Ꟑꟑ꟒ꟓ꟔ꟕꟖꟗꟘꟙꟚꟛꟜ꟱ꟲꟳꟴꟵꟶꟸꟹꟺꮀꮁꮂꮃꮄꮅꮆꮇꮈꮉꮊꮋꮌꮍꮎꮏꮐꮑꮒꮓꮔꮕꮖꮗꮘꮙ" \o
    "ꮚꮛꮜꮝꮞꮟꮠꮡꮢꮣꮤꮥꮦꮧꮨꮩꮪꮫꮬꮭꮮꮯꮰꮱꮲꮳꮴꮵꮶꮷꮸꮹꮺꮻꮼꮽꮾꮿ")

\* the characters with the Unicode property Case_Ignorable, of those a
\* string can hold (the grave accent U+0060 is one it cannot)
CaseIgnorable == CharsOf(
    "'.:^¨­¯´·¸ʰʱʲʳʴʵʶʷʸʹʺʻʼʽʾʿˀˁ˂˃˄˅ˆˇˈˉˊˋˌˍˎˏːˑ˒˓˔˕˖˗˘˙˚˛˜˝˞˟ˠˡˢˣˤ˥" \o
    "˦˧˨˩˪˫ˬ˭ˮ˯˰˱˲˳˴˵˶˷˸˹˺˻˼˽˾˿΄΅·҃҄҅҆҇҈҉֑֖֛֢֣֤֥֦֧֪֚֒֓֔֕֗֘֙֜֝֞֟֠֡֨֩֫֬" \o
    "ְֱֲֳִֵֶַָׇֹֺֻּֽֿׁׂׅ֭֮֯ׄ״ۖۗۘۙۚۛۜ۝ۣ۟۠ۡۢۤۥۦ۪ۭۧۨ۫۬ަާިީުޫެޭޮޯް߫߬߭߮߯߰߱" \o
    "߲߳ߴߵߺ߽࢈࢐࢑࢙࢚࢛ࢗ࢘࢜࢝࢞࢟ࣉ࣏࣐࣑࣒࣓࣊࣋࣌࣍࣎ࣔࣕࣖࣗࣘࣙࣚࣛࣜࣝࣞࣟ࣠࣡࣢ࣰࣱࣲࣣࣦࣩ࣭࣮࣯ࣶࣤࣥࣧࣨ࣪࣫࣬ࣳࣴࣵ" \o
    "ࣹࣺࣷࣸࣻࣼࣽࣾࣿঁ়ুূৃৄ্ৢৣ৾ઁં઼ુૂૃૄૅેૈ્ૢૣૺૻૼ૽૾૿ஂீ்ಁ಼ಿೆೌ್ೢೣඁ්ිීුූັິີຶື຺ຸູົ" \o
    "ຼໆ່້໊໋໌ໍ໎྄ཱྀྀྂྃ྆྇ྍྎྏྐྑྒྒྷྔྕྖྗྙྚྛྜྜྷྞྟྠྡྡྷྣྤྥྦྦྷྨྩྪྫྫྷྭྮྯྰྱྲླྴྵྶྷྸྐྵྺྻྼ࿆" \o
    "ႂႅႆႍႝჼ឴឵ិីឹឺុូួំ៉៊់៌៍៎៏័៑្៓ៗ៝ᢅᢆᢩᪧ᪵᪶᪷᪸᪹᪺᪽᪰᪱᪲᪳᪴᪻᪼᪾ᪿᫀ᫃᫄᫊᫁᫂᫅᫆᫇᫈᫉᫋ᫌᫍᫎ" \o
    "᫏᫐᫑᫒᫓᫔᫕᫖᫗᫘᫙᫚᫛᫜᫝᫠᫡᫢᫣᫤᫥᫦᫧᫨᫩᫪᫫ᮀᮁᮢᮣᮤᮥᮨᮩ᮫ᮬᮭ᯦ᯨᯩᯭᯯᯰᯱ᳔᳢᳣᳤᳕᳖᳗᳘᳙᳜᳝᳞᳟᳐᳑᳒᳚᳛᳠" \o
    "᳥᳦᳧᳨᳭᳴᳸᳹ᶛᶜᶝᶞᶟᶠᶡᶢᶣᶤᶥᶦᶧᶨᶩᶪᶫᶬᶭᶮᶯᶰᶱᶲᶳᶴᶵᶶᶷᶸᶹᶺᶻᶼᶽᶾᶿ᷐᷎᷂᷊᷏᷀᷁᷃᷄᷅᷆᷇᷈᷉᷋᷌᷑᷒᷍" \o
    "᷺᷹᷽᷿᷷᷸ᷓᷔᷕᷖᷗᷘᷙᷚᷛᷜᷝᷞᷟᷠᷡᷢᷣᷤᷥᷦᷧᷨᷩᷪᷫᷬᷭᷮᷯᷰᷱᷲᷳᷴ᷵᷻᷾᷶᷼᾽᾿῀῁῍῎῏῝῞῟῭΅`´῾ₐₑₒₓ" \o
    "ₔₕₖₗₘₙₚₛₜ⃒⃓⃘⃙⃚⃐⃑⃔⃕⃖⃗⃛⃜⃝⃞⃟⃠⃡⃢⃣⃤⃥⃦⃪⃫⃨⃬⃭⃮⃯⃧⃩⃰⳯⳰⳱ⷠⷡⷢⷣⷤⷥⷦⷧⷨⷩⷪⷫⷬⷭⷮⷯⷰⷱⷲ" \o
    "゙゚ⷳⷴⷵⷶⷷⷸⷹⷺⷻⷼⷽⷾⷿ゛゜ゝゞーヽヾꓸꓹꓺꓻꓼꓽꚜꚝꚞꚟ꛰꛱ꞈ꞉꞊꟱ꟲꟳꟴꟸꟹ꣄ꣅ꣠꣡꣢꣣꣤꣥꣦꣧꣨꣩꣪꣫꣬꣭꣮꣯꣰꣱ꣿ" \o
    "ꦀꦁꦂ꦳ꦶꦷꦸꦹꦼꦽꧏꧥꧦꪴꪰꪲꪳꪷꪸꪾ꪿꫁ꫝꫬꫭꫳꫴ꫶ꯥꯨ꯭﮲﮳﮴﮵﮶﮷﮸﮹﮺﮻﮼﮽﮾﮿﯀﯁﯂﻿ﾞﾟ￣￹￺￻")

\* the Final_Sigma condition of the Unicode lower-case mapping at position
\* i of s: the nearest character before it that is not case-ignorable is a
\* cased letter, and the nearest such character after it, if any, is not
FinalSigma(s, i) ==
    /\ \E j \in 1..(i - 1) :
          /\ CharAt(s, j) \in Cased \ CaseIgnorable
          /\ \A k \in (j + 1)..(i - 1) : CharAt(s, k) \in CaseIgnorable
    /\ ~ \E j \in (i + 1)..Len(s) :
            /\ CharAt(s, j) \in Cased \ CaseIgnorable
            /\ \A k \in (i + 1)..(j - 1) : CharAt(s, k) \in CaseIgnorable

\* String.prototype.toLowerCase (characters a..b of s): each letter becomes
\* its small letter, the capital sigma the final sigma where Final_Sigma holds
RECURSIVE LowerRange(_, _, _)
LowerRange(s, a, b) ==
    IF a > b THEN ""
    ELSE IF a = b
    THEN IF CharAt(s, a) = "Σ" /\ FinalSigma(s, a) THEN "ς"
         ELSE LowerChar(CharAt(s, a))
    ELSE LET m == (a + b) \div 2
         IN  LowerRange(s, a, m) \o LowerRange(s, m + 1, b)

toLowerCase(s) == LowerRange(s, 1, Len(s))

\* String.prototype.includes
includes(s, p) ==
    \E i \in 1..(Len(s) - Len(p) + 1) : SubSeq(s, i, i + Len(p) - 1) = p

\* String.prototype.startsWith
startsWith(s, p) == Len(p) <= Len(s) /\ SubSeq(s, 1, Len(p)) = p

\* the characters \s matches and trim() strips, of those a TLA+ string can
\* hold: blank, line feed, tab, carriage return, form feed, and, written as
\* the characters themselves, the vertical tab U+000B, the no-break space
\* U+00A0, the ogham space mark U+1680 and the byte order mark U+FEFF (the
\* spaces U+2000..U+200A, U+2028, U+2029, U+202F, U+205F and U+3000 cannot
\* be written in a TLA+ string)
WhiteSpace == {" ", "\n", "\t", "\r", "\f", "", " ", " ", "﻿"}

\* the characters that . does not match in a RegExp
LineTerminators == {"\n", "\r"}

\* the characters of the class [.!?]
Terminators == {".", "!", "?"}

\* String.prototype.trim
RECURSIVE trimStart(_)
trimStart(s) ==
    IF Len(s) > 0 /\ CharAt(s, 1) \in WhiteSpace THEN trimStart(From(s, 2)) ELSE s

RECURSIVE trimEnd(_)
trimEnd(s) ==
    IF Len(s) > 0 /\ CharAt(s, Len(s)) \in WhiteSpace
    THEN trimEnd(SubSeq(s, 1, Len(s) - 1))
    ELSE s

trim(s) == trimEnd(trimStart(s))

\* s.split(/[C]+/) for a character class C: the pieces between the maximal
\* runs of characters of C, the empty pieces before a leading run and after
\* a trailing run included.  A piece starts at 1 or right after a run.
SetMin(S) == CHOOSE x \in S : \A y \in S : x <= y

RECURSIVE PiecesFrom(_, _, _)
PiecesFrom(s, class, starts) ==
    IF starts = {} THEN <<>>
    ELSE LET a == SetMin(starts)
             stops == {i \in a..Len(s) : CharAt(s, i) \in class}
             b == IF stops = {} THEN Len(s) ELSE SetMin(stops) - 1
         IN  <<SubSeq(s, a, b)>> \o PiecesFrom(s, class, starts \ {a})

PieceStarts(s, class) ==
    {1} \cup {i + 1 : i \in {j \in 1..Len(s) :
                                /\ CharAt(s, j) \in class
                                /\ (j = Len(s) \/ CharAt(s, j + 1) \notin class)}}

split(s, class) == PiecesFrom(s, class, PieceStarts(s, class))

\* Array.prototype.filter, for a predicate given as the set of kept indices
RECURSIVE FilterSeq(_, _, _)
FilterSeq(seq, keep, i) ==
    IF i > Len(seq) THEN <<>>
    ELSE (IF i \in keep THEN <<seq[i]>> ELSE <<>>) \o FilterSeq(seq, keep, i + 1)

\* Array.prototype.join
RECURSIVE join(_, _)
join(seq, sep) ==
    IF Len(seq) = 0 THEN ""
    ELSE IF Len(seq) = 1 THEN seq[1]
    ELSE seq[1] \o sep \o join(Tail(seq), sep)

\* Array.prototype.slice(0, n)
slice(seq, n) == SubSeq(seq, 1, IF Len(seq) < n THEN Len(seq) ELSE n)

(***************************************************************************)
(* RegExp.test for the patterns of the engine: /p1.*p2/i and /p1.*p2.*p3/i *)
(* (and the one-part /p1/i).  A pattern is the sequence of its literal     *)
(* parts, in lower case; .* spans any characters but line terminators.     *)
(***************************************************************************)

NoLineTerminator(s, a, b) == \A k \in a..b : CharAt(s, k) \notin LineTerminators

RECURSIVE RegexFrom(_, _, _, _)
RegexFrom(ls, parts, k, from) ==
    \E i \in from..(Len(ls) - Len(parts[k]) + 1) :
        /\ SubSeq(ls, i, i + Len(parts[k]) - 1) = parts[k]
        /\ (k > 1 => NoLineTerminator(ls, from, i - 1))
        /\ (k = Len(parts) \/ RegexFrom(ls, parts, k + 1, i + Len(parts[k])))

\* pattern.test(s) for a case-insensitive pattern: the lower-case parts are
\* matched against the lower-cased text
test(pattern, s) == RegexFrom(toLowerCase(s), pattern, 1, 1)

\* the loop `for (const pattern of patterns) if (pattern.test(s)) ... break`
\* finds a pattern iff some pattern of the table matches; ls is the
\* lower-cased text
SomePatternTests(patterns, ls) ==
    \E k \in 1..Len(patterns) : RegexFrom(ls, patterns[k], 1, 1)

(***************************************************************************)
(* pages/api/analyze.ts                                                    *)
(***************************************************************************)

highPatterns == <<
    <<"liability", "unlimited">>,
    <<"indemnif", "all", "claims">>,
    <<"waive", "all", "rights">>,
    <<"exclusive", "remedy">>,
    <<"no", "warranty">>,
    <<"as", "is", "basis">>,
    <<"liquidated", "damages">>,
    <<"penalty">>,
    <<"forfeit">>,
    <<"immediate", "termination">>,
    <<"sole", "discretion">>,
    <<"irrevocable">>,
    <<"personal", "guarantee">> >>

mediumPatterns == <<
    <<"limitation", "liability">>,
    <<"consequential", "damages">>,
    <<"material", "breach">>,
    <<"cure", "period">>,
    <<"arbitration", "binding">>,
    <<"governing", "law">>,
    <<"assignment", "consent">>,
    <<"modification", "writing">>,
    <<"confidentiality">>,
    <<"non", "compete">>,
    <<"intellectual", "property">> >>

lowPatterns == <<
    <<"reasonable", "efforts">>,
    <<"good", "faith">>,
    <<"mutual", "agreement">>,
    <<"written", "notice">>,
    <<"business", "days">>,
    <<"standard", "terms">> >>

positivePatterns == <<
    <<"warranty", "provided">>,
    <<"guarantee", "quality">>,
    <<"right", "to", "cure">>,
    <<"notice", "period">>,
    <<"mutual", "termination">>,
    <<"fair", "market", "value">>,
    <<"reasonable", "compensation">>,
    <<"protection", "of", "rights">> >>

importantTerms == <<
    "force majeure", "assignment", "severability", "entire agreement",
    "governing law", "jurisdiction", "dispute resolution", "arbitration",
    "intellectual property", "trade secrets", "confidential information",
    "payment terms", "delivery terms", "performance standards" >>

containsImportantLegalTerms(sentence) ==
    LET hasTerm(lowerSentence) ==
            \E k \in 1..Len(importantTerms) : includes(lowerSentence, importantTerms[k])
    IN  hasTerm(toLowerCase(sentence))

generateRiskExplanation(sentence, level) ==
    LET explain(lowerSentence) ==
            IF includes(lowerSentence, "unlimited") /\ includes(lowerSentence, "liability")
            THEN "This clause exposes you to unlimited financial liability, which could result in significant financial loss beyond the contract value."
            ELSE IF includes(lowerSentence, "indemnif")
            THEN "This indemnification clause requires you to protect the other party from legal claims, potentially at significant cost."
            ELSE IF includes(lowerSentence, "waive") /\ includes(lowerSentence, "rights")
            THEN "This clause requires you to give up important legal rights, which could limit your options if disputes arise."
            ELSE IF includes(lowerSentence, "no warranty") \/ includes(lowerSentence, "as is")
            THEN "This disclaimer removes warranties and protections, meaning you accept the product/service without guarantees."
            ELSE IF includes(lowerSentence, "penalty") \/ includes(lowerSentence, "liquidated damages")
            THEN "This clause imposes financial penalties that could be costly if you fail to meet certain obligations."
            ELSE IF includes(lowerSentence, "immediate termination")
            THEN "This allows for immediate contract termination, which could disrupt your business operations without notice."
            ELSE IF includes(lowerSentence, "sole discretion")
            THEN "This gives the other party unilateral decision-making power, potentially limiting your input on important matters."
            ELSE IF level = "high"
            THEN "This clause contains terms that could expose you to significant risk or liability. Consider negotiating modifications."
            ELSE IF level = "medium"
            THEN "This clause has moderate risk implications and should be reviewed carefully to understand your obligations."
            ELSE "This clause should be reviewed to understand its implications for your rights and obligations."
    IN  explain(toLowerCase(sentence))

generatePositiveExplanation(sentence) ==
    LET explain(lowerSentence) ==
            IF includes(lowerSentence, "warranty") \/ includes(lowerSentence, "guarantee")
            THEN "This clause provides you with warranties or guarantees, offering protection and recourse if issues arise."
            ELSE IF includes(lowerSentence, "right to cure")
            THEN "This gives you the opportunity to fix any breaches before facing penalties, providing valuable protection."
            ELSE IF includes(lowerSentence, "notice period")
            THEN "This ensures you receive adequate notice before any adverse actions, giving you time to respond."
            ELSE IF includes(lowerSentence, "fair market value")
            THEN "This ensures pricing or valuations are based on fair market standards, protecting against unfair terms."
            ELSE "This clause appears to provide beneficial terms or protections in your favor."
    IN  explain(toLowerCase(sentence))

generateNeutralExplanation(sentence) ==
    LET explain(lowerSentence) ==
            IF includes(lowerSentence, "reasonable efforts")
            THEN "This sets a reasonable standard for performance obligations without being overly burdensome."
            ELSE IF includes(lowerSentence, "good faith")
            THEN "This requires both parties to act honestly and fairly in their dealings under the contract."
            ELSE IF includes(lowerSentence, "written notice")
            THEN "This establishes clear communication requirements, ensuring important notices are properly documented."
            ELSE "This appears to be a standard contractual provision with balanced terms for both parties."
    IN  explain(toLowerCase(sentence))

Clause(text, type, level, explanation) ==
    [text |-> text, type |-> type, riskLevel |-> level, explanation |-> explanation]

\* text.split(/[.!?]+/).filter(s => s.trim().length > 20)
MinSentenceLength == 20

\* segmentSentences with the length taken before trimming
segmentSentences_untrimmed(text) ==
    LET longEnough(pieces) ==
            FilterSeq(pieces,
                      {i \in 1..Len(pieces) : Len(pieces[i]) > MinSentenceLength}, 1)
    IN  longEnough(split(text, Terminators))

segmentSentences(text) ==
    LET longEnough(pieces) ==
            FilterSeq(pieces,
                      {i \in 1..Len(pieces) : Len(trim(pieces[i])) > MinSentenceLength}, 1)
    IN  longEnough(split(text, Terminators))

\* sentences whose trimmed length is below this are skipped by the analysis
MinClauseSentenceLength == 30

\* the loop body that gives a favourable clause the risk level of the
\* visualization route: riskLevel: 'positive'
analyzeSentence_positiveLevel(sentence) ==
    LET classify(trimmedSentence, ls) ==
            IF Len(trimmedSentence) < MinClauseSentenceLength THEN <<>>
            ELSE IF SomePatternTests(highPatterns, ls)
            THEN <<Clause(trimmedSentence, "risk", "high",
                          generateRiskExplanation(trimmedSentence, "high"))>>
            ELSE IF SomePatternTests(mediumPatterns, ls)
            THEN <<Clause(trimmedSentence, "risk", "medium",
                          generateRiskExplanation(trimmedSentence, "medium"))>>
            ELSE IF SomePatternTests(positivePatterns, ls)
            THEN <<Clause(trimmedSentence, "positive", "positive",
                          generatePositiveExplanation(trimmedSentence))>>
            ELSE IF SomePatternTests(lowPatterns, ls)
            THEN <<Clause(trimmedSentence, "neutral", "low",
                          generateNeutralExplanation(trimmedSentence))>>
            ELSE IF containsImportantLegalTerms(trimmedSentence)
            THEN <<Clause(trimmedSentence, "neutral", "medium",
                          "This clause contains important legal terms that should be reviewed carefully.")>>
            ELSE <<>>
        lowered(trimmedSentence) == classify(trimmedSentence, toLowerCase(trimmedSentence))
    IN  lowered(trim(sentence))

\* analyzeSentence with the positive patterns tried before the risk patterns
analyzeSentence_positiveFirst(sentence) ==
    LET classify(trimmedSentence, ls) ==
            IF Len(trimmedSentence) < MinClauseSentenceLength THEN <<>>
            ELSE IF SomePatternTests(positivePatterns, ls)
            THEN <<Clause(trimmedSentence, "positive", "low",
                          generatePositiveExplanation(trimmedSentence))>>
            ELSE IF SomePatternTests(highPatterns, ls)
            THEN <<Clause(trimmedSentence, "risk", "high",
                          generateRiskExplanation(trimmedSentence, "high"))>>
            ELSE IF SomePatternTests(mediumPatterns, ls)
            THEN <<Clause(trimmedSentence, "risk", "medium",
                          generateRiskExplanation(trimmedSentence, "medium"))>>
            ELSE IF SomePatternTests(lowPatterns, ls)
            THEN <<Clause(trimmedSentence, "neutral", "low",
                          generateNeutralExplanation(trimmedSentence))>>
            ELSE IF containsImportantLegalTerms(trimmedSentence)
            THEN <<Clause(trimmedSentence, "neutral", "medium",
                          "This clause contains important legal terms that should be reviewed carefully.")>>
            ELSE <<>>
        lowered(trimmedSentence) == classify(trimmedSentence, toLowerCase(trimmedSentence))
    IN  lowered(trim(sentence))

\* One pass of the body of the sentence loop of analyzeDocumentClauses: the
\* clauses it pushes for one sentence (none or one).
analyzeSentence(sentence) ==
    LET classify(trimmedSentence, ls) ==
            IF Len(trimmedSentence) < MinClauseSentenceLength THEN <<>>
            ELSE IF SomePatternTests(highPatterns, ls)
            THEN <<Clause(trimmedSentence, "risk", "high",
                          generateRiskExplanation(trimmedSentence, "high"))>>
            ELSE IF SomePatternTests(mediumPatterns, ls)
            THEN <<Clause(trimmedSentence, "risk", "medium",
                          generateRiskExplanation(trimmedSentence, "medium"))>>
            ELSE IF SomePatternTests(positivePatterns, ls)
            THEN <<Clause(trimmedSentence, "positive", "low",
                          generatePositiveExplanation(trimmedSentence))>>
            ELSE IF SomePatternTests(lowPatterns, ls)
            THEN <<Clause(trimmedSentence, "neutral", "low",
                          generateNeutralExplanation(trimmedSentence))>>
            ELSE IF containsImportantLegalTerms(trimmedSentence)
            THEN <<Clause(trimmedSentence, "neutral", "medium",
                          "This clause contains important legal terms that should be reviewed carefully.")>>
            ELSE <<>>
        lowered(trimmedSentence) == classify(trimmedSentence, toLowerCase(trimmedSentence))
    IN  lowered(trim(sentence))

\* the sentence loop: the clauses pushed for the sentences, in order
RECURSIVE analyzeSentences(_)
analyzeSentences(sentences) ==
    IF Len(sentences) = 0 THEN <<>>
    ELSE analyzeSentence(Head(sentences)) \o analyzeSentences(Tail(sentences))

performGeneralAnalysis(text) ==
    LET general(lowerText) ==
            (IF includes(lowerText, "employment") \/ includes(lowerText, "employee")
             THEN <<Clause("Employment agreement detected", "neutral", "medium",
                           "Employment agreements typically contain important terms regarding compensation, benefits, termination, and post-employment obligations. Review carefully for non-compete clauses and termination conditions.")>>
             ELSE <<>>)
            \o
            (IF includes(lowerText, "payment") /\ includes(lowerText, "terms")
             THEN <<Clause("Payment terms identified", "neutral", "medium",
                           "Payment terms define when and how payments must be made. Ensure you understand due dates, late fees, and acceptable payment methods.")>>
             ELSE <<>>)
            \o
            (IF includes(lowerText, "termination")
             THEN <<Clause("Termination provisions found", "risk", "medium",
                           "Termination clauses define how and when the contract can be ended. Pay attention to notice requirements, termination fees, and post-termination obligations.")>>
             ELSE <<>>)
    IN  general(toLowerCase(text))

\* analyzeDocumentClauses with the general analysis run unconditionally
analyzeDocumentClauses_always(text) ==
    analyzeSentences(segmentSentences(text)) \o performGeneralAnalysis(text)

analyzeDocumentClauses(text) ==
    LET orGeneral(found) ==
            IF Len(found) = 0 THEN performGeneralAnalysis(text) ELSE found
    IN  orGeneral(analyzeSentences(segmentSentences(text)))

\* baseScore with the scores of high and low exchanged
baseScore_swapped(level) ==
    CASE level = "high" -> 20 [] level = "medium" -> 50 [] level = "low" -> 80
      [] OTHER -> 0

\* the base score and the weight of a risk level, the adjustment of a type
baseScore(level) ==
    CASE level = "high" -> 80 [] level = "medium" -> 50 [] level = "low" -> 20
      [] OTHER -> 0

riskWeight(level) ==
    CASE level = "high" -> 3 [] level = "medium" -> 2 [] level = "low" -> 1
      [] OTHER -> 1

\* the adjustment with larger steps: score += 25, score -= 25
typeAdjustment_larger(type) ==
    CASE type = "risk" -> 25 [] type = "positive" -> -25 [] OTHER -> 0

typeAdjustment(type) ==
    CASE type = "risk" -> 10 [] type = "positive" -> -15 [] OTHER -> 0

clauseScore(clause) == baseScore(clause.riskLevel) + typeAdjustment(clause.type)

RECURSIVE totalScore(_)
totalScore(cs) ==
    IF Len(cs) = 0 THEN 0
    ELSE clauseScore(Head(cs)) * riskWeight(Head(cs).riskLevel) + totalScore(Tail(cs))

RECURSIVE weightedCount(_)
weightedCount(cs) ==
    IF Len(cs) = 0 THEN 0 ELSE riskWeight(Head(cs).riskLevel) + weightedCount(Tail(cs))

\* Math.floor in the place of Math.round
MathRound_floor(n, d) == n \div d

\* Math.round(n / d) for d > 0: the nearest integer, halves towards +infinity
MathRound(n, d) == (2 * n + d) \div (2 * d)

Max(a, b) == IF a > b THEN a ELSE b
Min(a, b) == IF a < b THEN a ELSE b

DefaultRiskScore == 30

calculateOverallRiskScore(cs) ==
    IF Len(cs) = 0 THEN DefaultRiskScore
    ELSE LET total == totalScore(cs)
             weight == weightedCount(cs)
         IN  IF weight > 0
             THEN Max(0, Min(100, MathRound(total, weight)))
             ELSE DefaultRiskScore

(***************************************************************************)
(* src/unnamed/part_002: the visualization route                           *)
(***************************************************************************)

clauseStarters == <<
    "section", "article", "clause", "paragraph", "whereas", "therefore",
    "furthermore", "in addition", "notwithstanding", "subject to",
    "provided that", "it is agreed", "the parties agree", "each party",
    "either party", "upon termination", "in the event", "if any",
    "this agreement" >>

\* isClauseStart without the lower-casing of the sentence
isClauseStart_caseSensitive(sentence) ==
    \E k \in 1..Len(clauseStarters) : startsWith(sentence, clauseStarters[k])

isClauseStart(sentence) ==
    LET starts(lowerSentence) ==
            \E k \in 1..Len(clauseStarters) : startsWith(lowerSentence, clauseStarters[k])
    IN  starts(toLowerCase(sentence))

\* a buffer longer than this is flushed
MaxClauseLength == 300

\* a clause must be longer than this to be kept
MinClauseLength == 30

\* the loop body without the length check that follows the marker check
extractStep_noCap(st, sentence) ==
    LET pushed(trimmed) ==
            IF isClauseStart(trimmed) /\ Len(st.currentClause) > 0
            THEN [clauses |-> Append(st.clauses, trim(st.currentClause)),
                  currentClause |-> trimmed]
            ELSE [clauses |-> st.clauses,
                  currentClause |->
                      st.currentClause
                      \o (IF st.currentClause # "" THEN ". " ELSE "")
                      \o trimmed]
    IN  pushed(trim(sentence))

\* the loop body with || for && in its condition: a non-empty buffer is
\* flushed at every sentence
extractStep_orCondition(st, sentence) ==
    LET capped(st1) ==
            IF Len(st1.currentClause) > MaxClauseLength
            THEN [clauses |-> Append(st1.clauses, trim(st1.currentClause)),
                  currentClause |-> ""]
            ELSE st1
        pushed(trimmed) ==
            capped(IF isClauseStart(trimmed) \/ Len(st.currentClause) > 0
                   THEN [clauses |-> Append(st.clauses, trim(st.currentClause)),
                         currentClause |-> trimmed]
                   ELSE [clauses |-> st.clauses,
                         currentClause |->
                             st.currentClause
                             \o (IF st.currentClause # "" THEN ". " ELSE "")
                             \o trimmed])
    IN  pushed(trim(sentence))

\* One pass of the sentence loop of extractClauses over the state
\* [clauses, currentClause].
extractStep(st, sentence) ==
    LET capped(st1) ==
            IF Len(st1.currentClause) > MaxClauseLength
            THEN [clauses |-> Append(st1.clauses, trim(st1.currentClause)),
                  currentClause |-> ""]
            ELSE st1
        pushed(trimmed) ==
            capped(IF isClauseStart(trimmed) /\ Len(st.currentClause) > 0
                   THEN [clauses |-> Append(st.clauses, trim(st.currentClause)),
                         currentClause |-> trimmed]
                   ELSE [clauses |-> st.clauses,
                         currentClause |->
                             st.currentClause
                             \o (IF st.currentClause # "" THEN ". " ELSE "")
                             \o trimmed])
    IN  pushed(trim(sentence))

RECURSIVE extractLoop(_, _, _)
extractLoop(st, sentences, i) ==
    IF i > Len(sentences) THEN st
    ELSE extractLoop(extractStep(st, sentences[i]), sentences, i + 1)

\* the clause blocks before the final length filter
clauseBlocks(text) ==
    LET flushed(st) ==
            IF trim(st.currentClause) # ""
            THEN Append(st.clauses, trim(st.currentClause))
            ELSE st.clauses
    IN  flushed(extractLoop([clauses |-> <<>>, currentClause |-> ""], segmentSentences(text), 1))

extractClauses(text) ==
    LET longEnough(blocks) ==
            FilterSeq(blocks, {i \in 1..Len(blocks) : Len(blocks[i]) > MinClauseLength}, 1)
    IN  longEnough(clauseBlocks(text))

highRiskTerms == <<
    "unlimited liability", "personal guarantee", "waive all rights",
    "no recourse", "as is", "without warranty", "sole discretion",
    "immediate termination", "liquidated damages", "penalty" >>

Analysis(type, category, level) ==
    [type |-> type, category |-> category, riskLevel |-> level]

\* categoryOf with the liability rule tried before the termination rule
categoryOf_liabilityFirst(lowerClause) ==
    IF \/ includes(lowerClause, "payment") \/ includes(lowerClause, "fee")
       \/ includes(lowerClause, "cost") \/ includes(lowerClause, "compensation")
    THEN Analysis("financial", "Financial Terms", "medium")
    ELSE IF \/ includes(lowerClause, "liability") \/ includes(lowerClause, "damages")
            \/ includes(lowerClause, "indemnif") \/ includes(lowerClause, "waive")
            \/ includes(lowerClause, "disclaim") \/ includes(lowerClause, "limit")
    THEN Analysis("liability", "Liability & Risk", "high")
    ELSE IF \/ includes(lowerClause, "terminat") \/ includes(lowerClause, "end")
            \/ includes(lowerClause, "cancel") \/ includes(lowerClause, "expire")
    THEN Analysis("termination", "Termination", "medium")
    ELSE IF \/ includes(lowerClause, "intellectual property")
            \/ includes(lowerClause, "copyright") \/ includes(lowerClause, "trademark")
            \/ includes(lowerClause, "patent") \/ includes(lowerClause, "proprietary")
    THEN Analysis("intellectual_property", "Intellectual Property", "medium")
    ELSE IF \/ includes(lowerClause, "confidential") \/ includes(lowerClause, "non-disclosure")
            \/ includes(lowerClause, "proprietary information")
            \/ includes(lowerClause, "trade secret")
    THEN Analysis("confidentiality", "Confidentiality", "medium")
    ELSE IF \/ includes(lowerClause, "shall") \/ includes(lowerClause, "must")
            \/ includes(lowerClause, "required") \/ includes(lowerClause, "obligation")
    THEN Analysis("obligation", "Obligations", "medium")
    ELSE IF \/ includes(lowerClause, "warrant") \/ includes(lowerClause, "represent")
            \/ includes(lowerClause, "guarantee") \/ includes(lowerClause, "assure")
    THEN Analysis("warranty", "Warranties", "low")
    ELSE IF \/ includes(lowerClause, "dispute") \/ includes(lowerClause, "arbitration")
            \/ includes(lowerClause, "mediation") \/ includes(lowerClause, "litigation")
    THEN Analysis("dispute_resolution", "Dispute Resolution", "medium")
    ELSE IF \/ includes(lowerClause, "governing law") \/ includes(lowerClause, "jurisdiction")
            \/ includes(lowerClause, "venue") \/ includes(lowerClause, "court")
    THEN Analysis("governing_law", "Legal Framework", "low")
    ELSE IF \/ includes(lowerClause, "benefit") \/ includes(lowerClause, "advantage")
            \/ includes(lowerClause, "protection") \/ includes(lowerClause, "right")
    THEN Analysis("benefit", "Benefits & Rights", "positive")
    ELSE Analysis("general", "General", "low")

\* the chain of if / else if of analyzeClause: the first rule that matches
categoryOf(lowerClause) ==
    IF \/ includes(lowerClause, "payment") \/ includes(lowerClause, "fee")
       \/ includes(lowerClause, "cost") \/ includes(lowerClause, "compensation")
    THEN Analysis("financial", "Financial Terms", "medium")
    ELSE IF \/ includes(lowerClause, "terminat") \/ includes(lowerClause, "end")
            \/ includes(lowerClause, "cancel") \/ includes(lowerClause, "expire")
    THEN Analysis("termination", "Termination", "medium")
    ELSE IF \/ includes(lowerClause, "liability") \/ includes(lowerClause, "damages")
            \/ includes(lowerClause, "indemnif") \/ includes(lowerClause, "waive")
            \/ includes(lowerClause, "disclaim") \/ includes(lowerClause, "limit")
    THEN Analysis("liability", "Liability & Risk", "high")
    ELSE IF \/ includes(lowerClause, "intellectual property")
            \/ includes(lowerClause, "copyright") \/ includes(lowerClause, "trademark")
            \/ includes(lowerClause, "patent") \/ includes(lowerClause, "proprietary")
    THEN Analysis("intellectual_property", "Intellectual Property", "medium")
    ELSE IF \/ includes(lowerClause, "confidential") \/ includes(lowerClause, "non-disclosure")
            \/ includes(lowerClause, "proprietary information")
            \/ includes(lowerClause, "trade secret")
    THEN Analysis("confidentiality", "Confidentiality", "medium")
    ELSE IF \/ includes(lowerClause, "shall") \/ includes(lowerClause, "must")
            \/ includes(lowerClause, "required") \/ includes(lowerClause, "obligation")
    THEN Analysis("obligation", "Obligations", "medium")
    ELSE IF \/ includes(lowerClause, "warrant") \/ includes(lowerClause, "represent")
            \/ includes(lowerClause, "guarantee") \/ includes(lowerClause, "assure")
    THEN Analysis("warranty", "Warranties", "low")
    ELSE IF \/ includes(lowerClause, "dispute") \/ includes(lowerClause, "arbitration")
            \/ includes(lowerClause, "mediation") \/ includes(lowerClause, "litigation")
    THEN Analysis("dispute_resolution", "Dispute Resolution", "medium")
    ELSE IF \/ includes(lowerClause, "governing law") \/ includes(lowerClause, "jurisdiction")
            \/ includes(lowerClause, "venue") \/ includes(lowerClause, "court")
    THEN Analysis("governing_law", "Legal Framework", "low")
    ELSE IF \/ includes(lowerClause, "benefit") \/ includes(lowerClause, "advantage")
            \/ includes(lowerClause, "protection") \/ includes(lowerClause, "right")
    THEN Analysis("benefit", "Benefits & Rights", "positive")
    ELSE Analysis("general", "General", "low")

\* the final override of analyzeClause
hasHighRiskTerm(lowerClause) ==
    \E k \in 1..Len(highRiskTerms) : includes(lowerClause, highRiskTerms[k])

\* analyzeClause whose override applies to liability clauses only
analyzeClause_overrideLiabilityOnly(clause) ==
    LET raised(lowerClause, found) ==
            IF hasHighRiskTerm(lowerClause) /\ found.type = "liability"
            THEN [found EXCEPT !.riskLevel = "high"]
            ELSE found
        categorized(lowerClause) == raised(lowerClause, categoryOf(lowerClause))
    IN  categorized(toLowerCase(clause))

analyzeClause(clause) ==
    LET raised(lowerClause, found) ==
            IF hasHighRiskTerm(lowerClause)
            THEN [found EXCEPT !.riskLevel = "high"]
            ELSE found
        categorized(lowerClause) == raised(lowerClause, categoryOf(lowerClause))
    IN  categorized(toLowerCase(clause))

\* the decimal digits of a natural number: `${index + 1}`
Digits == "0123456789"

RECURSIVE NatToString(_)
NatToString(n) ==
    IF n < 10 THEN CharAt(Digits, n + 1)
    ELSE NatToString(n \div 10) \o CharAt(Digits, (n % 10) + 1)

DigitValue(c) == (CHOOSE k \in 1..10 : CharAt(Digits, k) = c) - 1

IsDigit(c) == \E k \in 1..10 : CharAt(Digits, k) = c

\* parseInt(s) for a string that starts with a digit: the value of its
\* leading digits
RECURSIVE ParseDigits(_, _, _)
ParseDigits(s, i, acc) ==
    IF i > Len(s) \/ ~IsDigit(CharAt(s, i)) THEN acc
    ELSE ParseDigits(s, i + 1, 10 * acc + DigitValue(CharAt(s, i)))

parseInt(s) == ParseDigits(s, 1, 0)

\* s.split('_')[1]: what follows the first underscore, up to the next one
afterUnderscore(s) ==
    LET us == {i \in 1..Len(s) : CharAt(s, i) = "_"}
        a == SetMin(us)
        rest == {i \in us : i > a}
    IN  SubSeq(s, a + 1, IF rest = {} THEN Len(s) ELSE SetMin(rest) - 1)

nodeId(index) == "clause_" \o NatToString(index)

\* the longest node text before it is cut
MaxNodeText == 100

\* clause.substring(0, 100) + (clause.length > 100 ? '...' : '')
nodeText(clause) ==
    IF Len(clause) > MaxNodeText THEN SubSeq(clause, 1, MaxNodeText) \o "..." ELSE clause

\* the node of the clause at (1-based) position index
makeNode(clause, index) ==
    LET node(analysis) ==
            [id |-> nodeId(index),
             text |-> nodeText(clause),
             type |-> analysis.type,
             riskLevel |-> analysis.riskLevel,
             category |-> analysis.category,
             connections |-> <<>>]
    IN  node(analyzeClause(clause))

Abs(x) == IF x < 0 THEN -x ELSE x

Relation(type, description) == [type |-> type, description |-> description]

\* findRelationship with the reference rule tried before the conditional one
findRelationship_referenceFirst(node1, node2, clause1, clause2) ==
    IF Abs(parseInt(afterUnderscore(node1.id)) - parseInt(afterUnderscore(node2.id))) = 1
    THEN <<Relation("sequential", "Sequential clauses in the document")>>
    ELSE IF \/ includes(clause1, "section") \/ includes(clause1, "paragraph")
            \/ includes(clause1, "clause")
    THEN <<Relation("reference", "One clause references another")>>
    ELSE IF /\ \/ includes(clause1, "if") \/ includes(clause1, "provided that")
               \/ includes(clause1, "subject to")
            /\ \/ includes(clause2, "then") \/ includes(clause2, "shall")
               \/ includes(clause2, "must")
    THEN <<Relation("conditional", "Conditional dependency between clauses")>>
    ELSE IF \/ (node1.riskLevel = "high" /\ node2.riskLevel = "positive")
            \/ (node1.riskLevel = "positive" /\ node2.riskLevel = "high")
    THEN <<Relation("conflict", "Potentially conflicting terms")>>
    ELSE IF node1.category = node2.category /\ node1.category # "General"
    THEN <<Relation("category", "Both relate to " \o node1.category)>>
    ELSE IF \/ (node1.type = "obligation" /\ node2.type = "financial")
            \/ (node1.type = "termination" /\ node2.type = "liability")
    THEN <<Relation("dependency", "One clause depends on another")>>
    ELSE <<>>

\* findRelationship: <<>> for null, a one-element sequence otherwise
findRelationship(node1, node2, clause1, clause2) ==
    IF Abs(parseInt(afterUnderscore(node1.id)) - parseInt(afterUnderscore(node2.id))) = 1
    THEN <<Relation("sequential", "Sequential clauses in the document")>>
    ELSE IF /\ \/ includes(clause1, "if") \/ includes(clause1, "provided that")
               \/ includes(clause1, "subject to")
            /\ \/ includes(clause2, "then") \/ includes(clause2, "shall")
               \/ includes(clause2, "must")
    THEN <<Relation("conditional", "Conditional dependency between clauses")>>
    ELSE IF \/ includes(clause1, "section") \/ includes(clause1, "paragraph")
            \/ includes(clause1, "clause")
    THEN <<Relation("reference", "One clause references another")>>
    ELSE IF \/ (node1.riskLevel = "high" /\ node2.riskLevel = "positive")
            \/ (node1.riskLevel = "positive" /\ node2.riskLevel = "high")
    THEN <<Relation("conflict", "Potentially conflicting terms")>>
    ELSE IF node1.category = node2.category /\ node1.category # "General"
    THEN <<Relation("category", "Both relate to " \o node1.category)>>
    ELSE IF \/ (node1.type = "obligation" /\ node2.type = "financial")
            \/ (node1.type = "termination" /\ node2.type = "liability")
    THEN <<Relation("dependency", "One clause depends on another")>>
    ELSE <<>>

\* the body of the inner loop of generateRelationships for the pair (i, j)
relationshipOfPair(ns, cs, i, j) ==
    LET related(relationship) ==
            IF Len(relationship) > 0
            THEN <<[from |-> ns[i].id, to |-> ns[j].id,
                    type |-> relationship[1].type,
                    description |-> relationship[1].description]>>
            ELSE <<>>
    IN  related(findRelationship(ns[i], ns[j], toLowerCase(cs[i]), toLowerCase(cs[j])))

\* the inner loop: j from first to nodes.length
RECURSIVE innerLoop(_, _, _, _)
innerLoop(ns, cs, i, j) ==
    IF j > Len(ns) THEN <<>>
    ELSE relationshipOfPair(ns, cs, i, j) \o innerLoop(ns, cs, i, j + 1)

\* the outer loop with the inner loop started at j = 0
RECURSIVE outerLoop_allPairs(_, _, _)
outerLoop_allPairs(ns, cs, i) ==
    IF i > Len(ns) THEN <<>>
    ELSE innerLoop(ns, cs, i, 1) \o outerLoop_allPairs(ns, cs, i + 1)

\* the outer loop; the inner loop starts at j = i + 1
RECURSIVE outerLoop(_, _, _)
outerLoop(ns, cs, i) ==
    IF i > Len(ns) THEN <<>>
    ELSE innerLoop(ns, cs, i, i + 1) \o outerLoop(ns, cs, i + 1)

generateRelationships(ns, cs) == outerLoop(ns, cs, 1)

\* the update that also records the relationship at its target:
\* toNode.connections.push(rel.from)
RECURSIVE updateConnections_bidirectional(_, _, _)
updateConnections_bidirectional(ns, rels, k) ==
    IF k > Len(rels) THEN ns
    ELSE LET froms == {i \in 1..Len(ns) : ns[i].id = rels[k].from}
             tos == {i \in 1..Len(ns) : ns[i].id = rels[k].to}
         IN  IF froms # {} /\ tos # {}
             THEN LET pushed == [ns EXCEPT ![SetMin(froms)].connections =
                                               Append(@, rels[k].to)]
                  IN  updateConnections_bidirectional(
                          [pushed EXCEPT ![SetMin(tos)].connections =
                                             Append(@, rels[k].from)],
                          rels, k + 1)
             ELSE updateConnections_bidirectional(ns, rels, k + 1)

\* relationships.forEach(rel => fromNode.connections.push(rel.to))
RECURSIVE updateConnections(_, _, _)
updateConnections(ns, rels, k) ==
    IF k > Len(rels) THEN ns
    ELSE LET froms == {i \in 1..Len(ns) : ns[i].id = rels[k].from}
             tos == {i \in 1..Len(ns) : ns[i].id = rels[k].to}
         IN  IF froms # {} /\ tos # {}
             THEN updateConnections(
                      [ns EXCEPT ![SetMin(froms)].connections = Append(@, rels[k].to)],
                      rels, k + 1)
             ELSE updateConnections(ns, rels, k + 1)

generateFlowData(text) ==
    LET linked(cs, ns, rels) ==
            [clauses |-> cs, nodes |-> updateConnections(ns, rels, 1), relationships |-> rels]
        related(cs, ns) == linked(cs, ns, generateRelationships(ns, cs))
        analyzed(cs) == related(cs, [i \in 1..Len(cs) |-> makeNode(cs[i], i)])
    IN  analyzed(extractClauses(text))

(***************************************************************************)
(* src/unnamed/part_001: the chat route                                    *)
(***************************************************************************)

\* context.split(/[.!?]+/).filter(sentence => some keyword is in its lower
\* case): the sentences of a topic, untrimmed
topicSentences(context, keywords) ==
    LET matching(sentences) ==
            FilterSeq(sentences,
                      {i \in 1..Len(sentences) :
                          \E k \in 1..Len(keywords) :
                              includes(toLowerCase(sentences[i]), keywords[k])}, 1)
    IN  matching(split(context, Terminators))

definitionKeywords == <<"means", "defined as", "refers to", "shall mean">>
partyKeywords == <<"party", "client", "contractor", "company", "agreement between">>
timingKeywords == <<"days", "months", "years", "date", "within", "duration", "term">>
financialKeywords ==
    <<"$", "payment", "fee", "cost", "price", "compensation", "salary", "rate">>
riskKeywords ==
    <<"liability", "risk", "penalty", "damages", "indemnif", "waive", "disclaim">>
terminationKeywords == <<"terminat", "end", "cancel", "expire", "breach">>
obligationKeywords == <<"shall", "must", "required", "obligation", "responsible", "duty">>
warrantyKeywords == <<"warrant", "guarantee", "represent", "assure", "promise">>

findDefinitions(question, context) ==
    LET reply(definitionSentences) ==
            IF Len(definitionSentences) > 0
            THEN "Based on the document, here are the relevant definitions:\n\n"
                 \o join(slice(definitionSentences, 3), ". ") \o "."
            ELSE ""
    IN  reply(topicSentences(context, definitionKeywords))

\* findParties returning the empty string when it finds no sentence
findParties_empty(question, context) ==
    LET reply(partySentences) ==
            IF Len(partySentences) > 0
            THEN "The parties involved in this agreement are:\n\n"
                 \o join(slice(partySentences, 2), ". ") \o "."
            ELSE ""
    IN  reply(topicSentences(context, partyKeywords))

findParties(question, context) ==
    LET reply(partySentences) ==
            IF Len(partySentences) > 0
            THEN "The parties involved in this agreement are:\n\n"
                 \o join(slice(partySentences, 2), ". ") \o "."
            ELSE "I could not clearly identify the specific parties from the document text."
    IN  reply(topicSentences(context, partyKeywords))

findTiming(question, context) ==
    LET reply(timingSentences) ==
            IF Len(timingSentences) > 0
            THEN "Here are the timing-related terms from the document:\n\n"
                 \o join(slice(timingSentences, 3), ". ") \o "."
            ELSE "I could not find specific timing or duration information in the document."
    IN  reply(topicSentences(context, timingKeywords))

findFinancialTerms(question, context) ==
    LET reply(financialSentences) ==
            IF Len(financialSentences) > 0
            THEN "Here are the financial terms mentioned in the document:\n\n"
                 \o join(slice(financialSentences, 3), ". ") \o "."
            ELSE "I could not find specific financial terms or payment information in the document."
    IN  reply(topicSentences(context, financialKeywords))

findRisks(question, context) ==
    LET reply(riskSentences) ==
            IF Len(riskSentences) > 0
            THEN "Here are the risk-related clauses I found:\n\n"
                 \o join(slice(riskSentences, 3), ". ")
                 \o ". \n\nPlease review these carefully as they may affect your liability and obligations."
            ELSE "I did not find any obvious risk-related clauses in the document, but I recommend having a legal professional review the full document."
    IN  reply(topicSentences(context, riskKeywords))

findTermination(question, context) ==
    LET reply(terminationSentences) ==
            IF Len(terminationSentences) > 0
            THEN "Here's what the document says about termination:\n\n"
                 \o join(slice(terminationSentences, 3), ". ") \o "."
            ELSE "I could not find specific termination clauses in the document."
    IN  reply(topicSentences(context, terminationKeywords))

findObligations(question, context) ==
    LET reply(obligationSentences) ==
            IF Len(obligationSentences) > 0
            THEN "Here are the key obligations mentioned in the document:\n\n"
                 \o join(slice(obligationSentences, 3), ". ") \o "."
            ELSE "I could not find specific obligations clearly stated in the document."
    IN  reply(topicSentences(context, obligationKeywords))

findWarranties(question, context) ==
    LET reply(warrantySentences) ==
            IF Len(warrantySentences) > 0
            THEN "Here's what the document says about warranties and guarantees:\n\n"
                 \o join(slice(warrantySentences, 3), ". ") \o "."
            ELSE "I could not find specific warranty or guarantee clauses in the document."
    IN  reply(topicSentences(context, warrantyKeywords))

stopWords == {"what", "when", "where", "how", "why", "does", "will", "can", "the", "and", "or"}

\* question words shorter than this or equal to it are dropped
MinWordLength == 3

\* the sentences an answer quotes at most
MaxRelevantSentences == 3

questionWordsOf(question) ==
    LET kept(words) ==
            FilterSeq(words,
                      {i \in 1..Len(words) :
                          Len(words[i]) > MinWordLength /\ words[i] \notin stopWords}, 1)
    IN  kept(split(toLowerCase(question), WhiteSpace))

\* the score of a sentence: one for every question word its lower case holds
sentenceScore(sentence, questionWords) ==
    Cardinality({k \in 1..Len(questionWords) :
                    includes(toLowerCase(sentence), questionWords[k])})

\* the sort with the comparison reversed: (a, b) => a.score - b.score
RECURSIVE sortByScore_ascending(_, _)
sortByScore_ascending(items, left) ==
    IF left = {} THEN <<>>
    ELSE LET best == CHOOSE i \in left :
                         \A j \in left :
                             \/ items[i].score < items[j].score
                             \/ items[i].score = items[j].score /\ i <= j
         IN  <<items[best]>> \o sortByScore_ascending(items, left \ {best})

\* Array.prototype.sort((a, b) => b.score - a.score), which is stable: the
\* items by falling score, items of one score in their order
RECURSIVE sortByScore(_, _)
sortByScore(items, left) ==
    IF left = {} THEN <<>>
    ELSE LET best == CHOOSE i \in left :
                         \A j \in left :
                             \/ items[i].score > items[j].score
                             \/ items[i].score = items[j].score /\ i <= j
         IN  <<items[best]>> \o sortByScore(items, left \ {best})

NotFoundAnswer ==
    "I couldn't find information directly related to your question in the document. Could you try rephrasing your question or asking about specific terms mentioned in the document?"

RelevantLead == "Based on your question, here are the most relevant parts of the document:\n\n"

extractRelevantSentences(question, context) ==
    LET quoted(relevantSentences) ==
            IF Len(relevantSentences) > 0
            THEN RelevantLead \o join(relevantSentences, ". ") \o "."
            ELSE NotFoundAnswer
        texts(top) == quoted([i \in 1..Len(top) |-> top[i].sentence])
        ranked(positive) ==
            texts(slice(sortByScore(positive, 1..Len(positive)), MaxRelevantSentences))
        filtered(scoredSentences) ==
            ranked(FilterSeq(scoredSentences,
                             {i \in 1..Len(scoredSentences) : scoredSentences[i].score > 0}, 1))
        scoredBy(questionWords, sentences) ==
            filtered([i \in 1..Len(sentences) |->
                         [sentence |-> trim(sentences[i]),
                          score |-> sentenceScore(sentences[i], questionWords)]])
    IN  scoredBy(questionWordsOf(question), segmentSentences(context))

questionPatterns == <<
    [patterns |-> <<"what are", "what is", "define", "explain">>, type |-> "definition"],
    [patterns |-> <<"who is", "who are", "which party", "parties">>, type |-> "parties"],
    [patterns |-> <<"when", "what date", "how long", "duration">>, type |-> "timing"],
    [patterns |-> <<"how much", "cost", "price", "fee", "payment">>, type |-> "financial"],
    [patterns |-> <<"risk", "danger", "liability", "penalty">>, type |-> "risk"],
    [patterns |-> <<"terminate", "end", "cancel", "exit">>, type |-> "termination"],
    [patterns |-> <<"obligation", "responsibility", "duty", "must">>, type |-> "obligations"],
    [patterns |-> <<"warranty", "guarantee", "protection">>, type |-> "warranties"] >>

\* pattern.patterns.some(p => lowerQuestion.includes(p))
patternMatches(pattern, lowerQuestion) ==
    \E k \in 1..Len(pattern.patterns) : includes(lowerQuestion, pattern.patterns[k])

\* the loop over questionPatterns from the last group to the first
RECURSIVE findPattern_fromLast(_, _)
findPattern_fromLast(lowerQuestion, k) ==
    LET n == Len(questionPatterns) + 1 - k
    IN  IF k > Len(questionPatterns) THEN 0
        ELSE IF patternMatches(questionPatterns[n], lowerQuestion) THEN n
        ELSE findPattern_fromLast(lowerQuestion, k + 1)

\* the loop over questionPatterns from group k on, with its break: the index
\* of the matched group, 0 for null
RECURSIVE findPattern(_, _)
findPattern(lowerQuestion, k) ==
    IF k > Len(questionPatterns) THEN 0
    ELSE IF patternMatches(questionPatterns[k], lowerQuestion) THEN k
    ELSE findPattern(lowerQuestion, k + 1)

\* matchedPattern.handler(q, c)
handlerAnswer(type, q, c) ==
    CASE type = "definition" -> findDefinitions(q, c)
      [] type = "parties" -> findParties(q, c)
      [] type = "timing" -> findTiming(q, c)
      [] type = "financial" -> findFinancialTerms(q, c)
      [] type = "risk" -> findRisks(q, c)
      [] type = "termination" -> findTermination(q, c)
      [] type = "obligations" -> findObligations(q, c)
      [] type = "warranties" -> findWarranties(q, c)

generateRuleBasedAnswer(question, context) ==
    LET orGeneric(handled) ==
            IF handled # "" THEN handled ELSE extractRelevantSentences(question, context)
        handle(lowerQuestion, matched) ==
            orGeneric(IF matched # 0
                      THEN handlerAnswer(questionPatterns[matched].type, lowerQuestion, context)
                      ELSE "")
        match(lowerQuestion) == handle(lowerQuestion, findPattern(lowerQuestion, 1))
    IN  match(toLowerCase(question))

\* generateAnswerWithHuggingFace: result.answer || the fixed sentence
NoSpecificAnswer == "I could not find a specific answer to your question in the document."

huggingFaceAnswer(resultAnswer) ==
    IF resultAnswer # "" THEN resultAnswer ELSE NoSpecificAnswer

(***************************************************************************)
(* Requests.  A document is a few phrases joined by separators: " and "    *)
(* keeps two phrases in one sentence, "?! " ends a sentence with a run of  *)
(* terminators, a line break keeps the sentence but stops a .* from        *)
(* spanning the two phrases.                                               *)
(***************************************************************************)

MaxPhrases == 2

Separators == {" and ", "?! ", "\n"}

AnalyzePhrases == {
    "There is no way to return the goods",
    "A warranty is provided to the buyer",
    "Both sides act in good faith always",
    "The arbitration takes place in Paris",
    "Each side keeps Confidentiality here",
    "A PENALTY APPLIES TO LATE WORK",
    "Short penalty text here",
    "Termination of employment is final" }

RECURSIVE TextsOf(_, _)
TextsOf(phrases, n) ==
    IF n = 1 THEN phrases
    ELSE {t \o sep \o p : t \in TextsOf(phrases, n - 1), sep \in Separators, p \in phrases}

Texts(phrases, max) == {""} \cup UNION {TextsOf(phrases, n) : n \in 1..max}

\* documents of short sentences, which the sentence pass skips
FallbackTexts == {
    "Payment terms are short. Employment ends soon. Termination too is near, so be wary",
    "Payment is late again. The terms are short. Nothing else is said here, is it",
    "The payment is late again. Nothing else is said about it here, is it",
    "The weather in Oslo was fine. It rained a bit. Nothing else happened here" }

AnalyzeRequests ==
    {[kind |-> "analyze", text |-> t] : t \in Texts(AnalyzePhrases, MaxPhrases) \cup FallbackTexts}

\* the shortest text the analyze and summarize handlers accept
MinTextLength == 50

NoScore == -1

\* the response carries no SummaryResult (yet, or an error instead)
NoSummary ==
    [summary |-> "", keyPoints |-> <<>>, wordCount |-> 0,
     compressionRatio |-> <<0, 1>>, method |-> ""]

(***************************************************************************)
(* src/pages/api/summarize.ts: the summarize route                         *)
(***************************************************************************)

legalKeywords == <<
    "agreement", "contract", "party", "parties", "terms", "conditions",
    "payment", "liability", "warranty", "termination", "breach",
    "confidentiality", "intellectual property", "indemnification",
    "governing law", "jurisdiction", "dispute", "arbitration",
    "force majeure", "assignment", "modification", "severability" >>

\* score += 2 for every keyword the sentence includes
KeywordScore == 2

\* score += 3 for the first and for the last sentence
PositionScore == 3

\* score += 1 for a sentence longer than 50 and shorter than 200
LengthScore == 1

MediumLengthMin == 50

MediumLengthMax == 200

\* the callback with one position test for the first and one for the last
\* sentence: if (index === 0) score += 3; if (index === length - 1) score += 3
scoredSentence_positionTwice(sentences, i) ==
    LET scoredAs(sentence, lowerSentence) ==
            [sentence |-> trim(sentence),
             score |->
                 KeywordScore * Cardinality({k \in 1..Len(legalKeywords) :
                                                includes(lowerSentence, legalKeywords[k])})
                 + (IF i - 1 = 0 THEN PositionScore ELSE 0)
                 + (IF i - 1 = Len(sentences) - 1 THEN PositionScore ELSE 0)
                 + (IF Len(sentence) > MediumLengthMin /\ Len(sentence) < MediumLengthMax
                    THEN LengthScore ELSE 0),
             index |-> i - 1]
    IN  scoredAs(sentences[i], toLowerCase(sentences[i]))

\* the callback of sentences.map: the item of the sentence at (1-based) i,
\* whose index field is the 0-based index of the code
scoredSentence(sentences, i) ==
    LET scoredAs(sentence, lowerSentence) ==
            [sentence |-> trim(sentence),
             score |->
                 KeywordScore * Cardinality({k \in 1..Len(legalKeywords) :
                                                includes(lowerSentence, legalKeywords[k])})
                 + (IF i - 1 = 0 \/ i - 1 = Len(sentences) - 1 THEN PositionScore ELSE 0)
                 + (IF Len(sentence) > MediumLengthMin /\ Len(sentence) < MediumLengthMax
                    THEN LengthScore ELSE 0),
             index |-> i - 1]
    IN  scoredAs(sentences[i], toLowerCase(sentences[i]))

\* the first sort with the comparison reversed: (a, b) => a.score - b.score
RECURSIVE sortDescending_ascending(_, _)
sortDescending_ascending(items, left) ==
    IF left = {} THEN <<>>
    ELSE LET best == CHOOSE i \in left :
                         \A j \in left :
                             \/ items[i].score < items[j].score
                             \/ items[i].score = items[j].score /\ i <= j
         IN  <<items[best]>> \o sortDescending_ascending(items, left \ {best})

\* .sort((a, b) => b.score - a.score), a stable sort
RECURSIVE sortDescending(_, _)
sortDescending(items, left) ==
    IF left = {} THEN <<>>
    ELSE LET best == CHOOSE i \in left :
                         \A j \in left :
                             \/ items[i].score > items[j].score
                             \/ items[i].score = items[j].score /\ i <= j
         IN  <<items[best]>> \o sortDescending(items, left \ {best})

\* the second sort left out: the selection stays in score order
sortByIndex_skipped(items, left) == items

\* .sort((a, b) => a.index - b.index), a stable sort
RECURSIVE sortByIndex(_, _)
sortByIndex(items, left) ==
    IF left = {} THEN <<>>
    ELSE LET first == CHOOSE i \in left :
                          \A j \in left :
                              \/ items[i].index < items[j].index
                              \/ items[i].index = items[j].index /\ i <= j
         IN  <<items[first]>> \o sortByIndex(items, left \ {first})

\* the most sentences a summary quotes
MaxTopSentences == 5

\* Math.min(5, Math.ceil(sentences.length * 0.3)).  The product n * 0.3 is
\* a double; up to n = 16, where the minimum is decided by the ceiling, the
\* double has the ceiling of the exact 3n/10, which is (3n + 9) div 10.
topCount(n) == Min(MaxTopSentences, (3 * n + 9) \div 10)

identifyDocumentType(text) ==
    LET typeOf(lowerText) ==
            IF includes(lowerText, "employment") \/ includes(lowerText, "employee")
            THEN "an employment agreement"
            ELSE IF includes(lowerText, "service") /\ includes(lowerText, "agreement")
            THEN "a service agreement"
            ELSE IF includes(lowerText, "lease") \/ includes(lowerText, "rental")
            THEN "a lease agreement"
            ELSE IF includes(lowerText, "purchase") \/ includes(lowerText, "sale")
            THEN "a purchase agreement"
            ELSE IF includes(lowerText, "license") \/ includes(lowerText, "licensing")
            THEN "a licensing agreement"
            ELSE IF includes(lowerText, "confidentiality") \/ includes(lowerText, "non-disclosure")
            THEN "a confidentiality agreement"
            ELSE IF includes(lowerText, "partnership") \/ includes(lowerText, "joint venture")
            THEN "a partnership agreement"
            ELSE "a legal document"
    IN  typeOf(toLowerCase(text))

\* String.prototype.endsWith
endsWith(s, p) == Len(p) <= Len(s) /\ SubSeq(s, Len(s) - Len(p) + 1, Len(s)) = p

UnableToSummarize == "Unable to generate summary from the provided text."

\* the topSentences of ruleBasedSummarization
topSentences(sentences) ==
    LET texts(inOrder) == [i \in 1..Len(inOrder) |-> inOrder[i].sentence]
        ordered(top) == texts(sortByIndex(top, 1..Len(top)))
        cut(byScore) == ordered(slice(byScore, topCount(Len(sentences))))
        ranked(scoredSentences) == cut(sortDescending(scoredSentences, 1..Len(scoredSentences)))
    IN  ranked([i \in 1..Len(sentences) |-> scoredSentence(sentences, i)])

hasLegalTerms(text) ==
    LET hasTerm(lowerText) ==
            \E k \in 1..Len(legalKeywords) : includes(lowerText, legalKeywords[k])
    IN  hasTerm(toLowerCase(text))

ruleBasedSummarization(text) ==
    LET ended(sentences, summary) ==
            IF Len(sentences) = 0 THEN UnableToSummarize
            ELSE IF ~endsWith(summary, ".") THEN summary \o "." ELSE summary
        led(sentences, joined) ==
            ended(sentences,
                  IF hasLegalTerms(text)
                  THEN "This appears to be " \o identifyDocumentType(text) \o ". " \o joined
                  ELSE joined)
        summarized(sentences) == led(sentences, join(topSentences(sentences), ". "))
    IN  summarized(segmentSentences(text))

\* a sentence of the summary must be longer than this to be a key point
MinKeyPointLength == 10

MaxKeyPoints == 3

NoKeyPoints == <<"Summary generated successfully">>

\* extractKeyPoints with the candidates cut to three before the short ones
\* are dropped
extractKeyPoints_sliceFirst(summary) ==
    LET orDefault(keyPoints) == IF Len(keyPoints) > 0 THEN keyPoints ELSE NoKeyPoints
        trimAll(kept) == orDefault([i \in 1..Len(kept) |-> trim(kept[i])])
        longEnough(pieces) ==
            trimAll(FilterSeq(pieces,
                              {i \in 1..Len(pieces) :
                                  Len(trim(pieces[i])) > MinKeyPointLength}, 1))
    IN  longEnough(slice(split(summary, Terminators), MaxKeyPoints))

extractKeyPoints(summary) ==
    LET orDefault(keyPoints) == IF Len(keyPoints) > 0 THEN keyPoints ELSE NoKeyPoints
        nonEmpty(trimmed) ==
            orDefault(FilterSeq(trimmed, {i \in 1..Len(trimmed) : Len(trimmed[i]) > 0}, 1))
        trimAll(first) == nonEmpty([i \in 1..Len(first) |-> trim(first[i])])
        cut(sentences) == trimAll(slice(sentences, MaxKeyPoints))
        longEnough(pieces) ==
            cut(FilterSeq(pieces,
                          {i \in 1..Len(pieces) :
                              Len(trim(pieces[i])) > MinKeyPointLength}, 1))
    IN  longEnough(split(summary, Terminators))

\* text.split(/\s+/).length: the pieces of the split, counted by their starts
wordCount(text) == Cardinality(PieceStarts(text, WhiteSpace))

\* The response of the handler to a body with this text, where hf is what
\* summarizeWithHuggingFace does: <<>> when it throws (no key, an HTTP or API
\* error, a timeout), <<s>> when it returns the summary s.  The free API
\* always throws.  calls lists the functions called, in order.
SummarizeResponse(code, result, called) ==
    [status |-> code, result |-> result, calls |-> called]

\* the handler with the length validation placed after the strategies
summarizeHandler_validateLast(text, hf) ==
    LET failed == Len(hf) = 0
        called == IF failed
                  THEN <<"summarizeWithHuggingFace", "summarizeWithFreeAPI",
                         "ruleBasedSummarization">>
                  ELSE <<"summarizeWithHuggingFace">>
        respond(summary) ==
            IF text = "" THEN SummarizeResponse(400, NoSummary, <<>>)
            ELSE IF Len(text) < MinTextLength THEN SummarizeResponse(400, NoSummary, called)
            ELSE IF trim(summary) = "" THEN SummarizeResponse(500, NoSummary, called)
            ELSE SummarizeResponse(200,
                     [summary |-> trim(summary),
                      keyPoints |-> extractKeyPoints(summary),
                      wordCount |-> wordCount(text),
                      compressionRatio |-> <<wordCount(summary), wordCount(text)>>,
                      method |-> IF failed THEN "extractive" ELSE "ai"],
                     Append(called, "extractKeyPoints"))
    IN  respond(IF failed THEN ruleBasedSummarization(text) ELSE hf[1])

summarizeHandler(text, hf) ==
    LET failed == Len(hf) = 0
        called == IF failed
                  THEN <<"summarizeWithHuggingFace", "summarizeWithFreeAPI",
                         "ruleBasedSummarization">>
                  ELSE <<"summarizeWithHuggingFace">>
        respond(summary) ==
            IF text = "" THEN SummarizeResponse(400, NoSummary, <<>>)
            ELSE IF Len(text) < MinTextLength THEN SummarizeResponse(400, NoSummary, <<>>)
            ELSE IF trim(summary) = "" THEN SummarizeResponse(500, NoSummary, called)
            ELSE SummarizeResponse(200,
                     [summary |-> trim(summary),
                      keyPoints |-> extractKeyPoints(summary),
                      wordCount |-> wordCount(text),
                      compressionRatio |-> <<wordCount(summary), wordCount(text)>>,
                      method |-> IF failed THEN "extractive" ELSE "ai"],
                     Append(called, "extractKeyPoints"))
    IN  respond(IF failed THEN ruleBasedSummarization(text) ELSE hf[1])

(***************************************************************************)
(* POST /api/analyze                                                       *)
(***************************************************************************)
\* the handler up to its await: the validation, which answers 400, or the
\* call of analyzeDocumentClauses, whose result the handler then awaits
AnalyzeHandler ==
    /\ pc = "start"
    /\ req.kind = "analyze"
    /\ IF req.text = ""
       THEN /\ pc' = "done"
            /\ status' = 400
            /\ calls' = <<>>
       ELSE IF Len(req.text) < MinTextLength
       THEN /\ pc' = "done"
            /\ status' = 400
            /\ calls' = <<>>
       ELSE /\ pc' = "analyzeDocumentClauses"
            /\ status' = status
            /\ calls' = <<"analyzeDocumentClauses">>
    /\ UNCHANGED <<req, clauses, riskScore, nodes, relationships, answer,
                   summaryResult, segmented, buffer, position, scored, clientVars>>

\* the handler after its await: the score, and the response
AnalyzeResponds ==
    /\ pc = "analyzeDocumentClauses"
    /\ req.kind = "analyze"
    /\ pc' = "done"
    /\ \E found \in {analyzeDocumentClauses(req.text)} :
           /\ status' = 200
           /\ clauses' = found
           /\ riskScore' = calculateOverallRiskScore(found)
           /\ calls' = Append(calls, "calculateOverallRiskScore")
    /\ UNCHANGED <<req, nodes, relationships, answer, summaryResult,
                   segmented, buffer, position, scored, clientVars>>

\* no hook is mounted and no retry is running
NoClient ==
    /\ hook = [mounted |-> "none"]
    /\ abortControllerRef = 0
    /\ controllers = <<>>
    /\ runs = <<>>
    /\ storage = <<>>
    /\ attempt = 0
    /\ issued = <<>>
    /\ lastError = ""

\* no response has been produced
NoResponse ==
    /\ pc = "start"
    /\ status = 0
    /\ clauses = <<>>
    /\ riskScore = NoScore
    /\ nodes = <<>>
    /\ relationships = <<>>
    /\ answer = ""
    /\ summaryResult = NoSummary
    /\ calls = <<>>
    /\ segmented = <<>>
    /\ buffer = ""
    /\ position = 0
    /\ scored = <<>>

InitResponse == NoResponse /\ NoClient

InitAnalyze == req \in AnalyzeRequests /\ InitResponse

NextAnalyze == AnalyzeHandler \/ AnalyzeResponds

SpecAnalyze == InitAnalyze /\ [][NextAnalyze]_vars

(***************************************************************************)
(* calculateOverallRiskScore on its own: clause lists of every mix of      *)
(* risk levels and types                                                   *)
(***************************************************************************)

MaxScoreClauses == 3

RiskLevels == {"high", "medium", "low"}
ClauseTypes == {"risk", "neutral", "positive"}

ScoredClauses == {Clause("clause", t, l, "") : t \in ClauseTypes, l \in RiskLevels}

RECURSIVE SeqsOf(_, _)
SeqsOf(S, n) ==
    IF n = 0 THEN {<<>>}
    ELSE {Append(q, x) : q \in SeqsOf(S, n - 1), x \in S}

SeqsUpTo(S, max) == UNION {SeqsOf(S, n) : n \in 0..max}

ScoreRequests ==
    {[kind |-> "score", clauses |-> cs] : cs \in SeqsUpTo(ScoredClauses, MaxScoreClauses)}

ScoreClauses ==
    /\ pc = "start"
    /\ req.kind = "score"
    /\ pc' = "done"
    /\ clauses' = req.clauses
    /\ riskScore' = calculateOverallRiskScore(req.clauses)
    /\ UNCHANGED <<req, status, nodes, relationships, answer, summaryResult, calls,
                   segmented, buffer, position, scored, clientVars>>

InitScore == req \in ScoreRequests /\ InitResponse

SpecScore == InitScore /\ [][ScoreClauses]_vars

(***************************************************************************)
(* Claims about the analysis pass                                          *)
(***************************************************************************)

\* The pattern sets in the order the spec gives them (ls is the lower-cased
\* sentence: the patterns are case-insensitive), and what a sentence whose
\* first matching set is the k-th is emitted as.
SetMatches(k, ls) ==
    CASE k = 1 -> \E i \in 1..Len(highPatterns) : RegexFrom(ls, highPatterns[i], 1, 1)
      [] k = 2 -> \E i \in 1..Len(mediumPatterns) : RegexFrom(ls, mediumPatterns[i], 1, 1)
      [] k = 3 -> \E i \in 1..Len(positivePatterns) : RegexFrom(ls, positivePatterns[i], 1, 1)
      [] k = 4 -> \E i \in 1..Len(lowPatterns) : RegexFrom(ls, lowPatterns[i], 1, 1)
      [] k = 5 -> \E i \in 1..Len(importantTerms) : includes(ls, importantTerms[i])

SetOutcome == <<
    [type |-> "risk", riskLevel |-> "high"],
    [type |-> "risk", riskLevel |-> "medium"],
    [type |-> "positive", riskLevel |-> "low"],
    [type |-> "neutral", riskLevel |-> "low"],
    [type |-> "neutral", riskLevel |-> "medium"] >>

MatchingSets(sentence) ==
    LET ls == toLowerCase(sentence) IN {k \in 1..5 : SetMatches(k, ls)}

\* the sentences the loop processes: trimmed, of 30 characters or more
ProcessedSentences(text) ==
    LET ss == segmentSentences(text)
        ts == [i \in 1..Len(ss) |-> trim(ss[i])]
    IN  FilterSeq(ts, {i \in 1..Len(ts) : Len(ts[i]) >= 30}, 1)

AnalyzeDone == pc = "done" /\ req.kind = "analyze" /\ status = 200

\* C1: every processed sentence is classified by the first pattern set that
\* matches it in the order high, medium, positive, low, important terms: the
\* clauses of the per-sentence pass are, in order, one clause for each
\* processed sentence that matches some set, with the type and risk level of
\* its first matching set, and no clause for a sentence that matches none.
C1_FirstMatchingSetWins ==
    AnalyzeDone =>
        LET ps == ProcessedSentences(req.text)
            sets == [i \in 1..Len(ps) |-> MatchingSets(ps[i])]
            hits == {i \in 1..Len(ps) : sets[i] # {}}
            matched == FilterSeq(ps, hits, 1)
            first == FilterSeq([i \in 1..Len(ps) |-> IF i \in hits THEN SetMin(sets[i]) ELSE 0],
                               hits, 1)
        IN  IF hits = {}
            THEN \A c \in 1..Len(clauses) : \A i \in 1..Len(ps) : clauses[c].text # ps[i]
            ELSE /\ Len(clauses) = Len(matched)
                 /\ \A i \in 1..Len(matched) :
                        /\ clauses[i].text = matched[i]
                        /\ clauses[i].type = SetOutcome[first[i]].type
                        /\ clauses[i].riskLevel = SetOutcome[first[i]].riskLevel

\* a sentence that matches a high-risk and a positive pattern was emitted,
\* once, as risk / high
C1_Witness ==
    /\ AnalyzeDone
    /\ Len(ProcessedSentences(req.text)) = 1
    /\ Len(clauses) = 1
    /\ {1, 3} \subseteq MatchingSets(clauses[1].text)
    /\ clauses[1].type = "risk"
    /\ clauses[1].riskLevel = "high"

ScoreDone == pc = "done" /\ req.kind = "score"

\* the score and the weight the spec gives a clause
SpecScoreOf(c) ==
    (CASE c.riskLevel = "high" -> 80 [] c.riskLevel = "medium" -> 50
       [] c.riskLevel = "low" -> 20)
    + (CASE c.type = "risk" -> 10 [] c.type = "positive" -> -15 [] c.type = "neutral" -> 0)

SpecWeightOf(c) ==
    CASE c.riskLevel = "high" -> 3 [] c.riskLevel = "medium" -> 2 [] c.riskLevel = "low" -> 1

RECURSIVE SumOver(_, _)
SumOver(f, S) ==
    IF S = {} THEN 0
    ELSE LET x == CHOOSE x \in S : TRUE IN f[x] + SumOver(f, S \ {x})

\* C4: the score of the empty list is 30; otherwise it is the integer nearest
\* to sum(score * weight) / sum(weight) (halves upwards), within 0..100.
C4_WeightedAverage ==
    ScoreDone =>
        /\ riskScore \in 0..100
        /\ Len(clauses) = 0 => riskScore = 30
        /\ Len(clauses) > 0 =>
              LET I == 1..Len(clauses)
                  total == SumOver([i \in I |-> SpecScoreOf(clauses[i]) * SpecWeightOf(clauses[i])], I)
                  weight == SumOver([i \in I |-> SpecWeightOf(clauses[i])], I)
              IN  \E r \in 0..100 :
                      /\ 2 * r * weight - weight <= 2 * total
                      /\ 2 * total < 2 * r * weight + weight
                      /\ riskScore = r

\* a list whose weighted average lies exactly between two integers
C4_Witness ==
    /\ ScoreDone
    /\ Len(clauses) = 2
    /\ clauses[1].riskLevel = "low" /\ clauses[1].type = "positive"
    /\ clauses[2].riskLevel = "low" /\ clauses[2].type = "risk"
    /\ riskScore = 18

\* C5: raising one clause from low to high, its type and the other clauses
\* kept, never lowers the score.
C5_Monotonic ==
    ScoreDone =>
        \A i \in 1..Len(clauses) :
            clauses[i].riskLevel = "low" =>
                calculateOverallRiskScore([clauses EXCEPT ![i].riskLevel = "high"]) >= riskScore

\* a low clause among clauses that score above it in both versions
C5_Witness ==
    /\ ScoreDone
    /\ Len(clauses) = 3
    /\ clauses[1].riskLevel = "high" /\ clauses[1].type = "risk"
    /\ clauses[2].riskLevel = "low" /\ clauses[2].type = "positive"
    /\ clauses[3].riskLevel = "high" /\ clauses[3].type = "risk"
    /\ calculateOverallRiskScore([clauses EXCEPT ![2].riskLevel = "high"]) > riskScore

(***************************************************************************)
(* POST to the visualization route, and analyzeClause on its own           *)
(***************************************************************************)

MaxFlowSentences == 3

FlowSentences == {
    "Section one sets the payment due each month",
    "Section two applies if the goods are late",
    "If any notice is late the buyer must pay a penalty",
    "Either party has the right to a fair hearing",
    "The vendor accepts unlimited liability for damages",
    "In the event of loss we disclaim all damages",
    "Therefore the seller shall deliver the goods",
    "Whereas it is so agreed now" }

FlowTexts ==
    {""} \cup {join(q, ". ") : q \in UNION {SeqsOf(FlowSentences, n) : n \in 1..MaxFlowSentences}}

FlowRequests == {[kind |-> "visualize", text |-> t] : t \in FlowTexts}

\* the handler up to its await: the validation, which answers 400, or the
\* call of generateFlowData, whose result the handler then awaits
VisualizeHandler ==
    /\ pc = "start"
    /\ req.kind = "visualize"
    /\ IF req.text = ""
       THEN /\ pc' = "done"
            /\ status' = 400
            /\ calls' = <<>>
       ELSE /\ pc' = "generateFlowData"
            /\ status' = status
            /\ calls' = <<"generateFlowData">>
    /\ UNCHANGED <<req, clauses, riskScore, nodes, relationships, answer,
                   summaryResult, segmented, buffer, position, scored, clientVars>>

\* the handler after its await: the response with the flow data
VisualizeResponds ==
    /\ pc = "generateFlowData"
    /\ req.kind = "visualize"
    /\ pc' = "done"
    /\ \E flowData \in {generateFlowData(req.text)} :
           /\ status' = 200
           /\ clauses' = flowData.clauses
           /\ nodes' = flowData.nodes
           /\ relationships' = flowData.relationships
    /\ UNCHANGED <<req, riskScore, answer, summaryResult, calls,
                   segmented, buffer, position, scored, clientVars>>

InitFlow == req \in FlowRequests /\ InitResponse

NextVisualize == VisualizeHandler \/ VisualizeResponds

SpecFlow == InitFlow /\ [][NextVisualize]_vars

\* A clause text: a lead of 30 characters and a few fragments, each of which
\* carries the keyword of one rule (or of none).
MaxFragments == 2

ClauseLead == "The two sides have agreed that"

ClauseFragments == {
    "a payment", "it will end", "all damages", "any patent", "a trade secret",
    "you must", "we warrant", "by mediation", "the venue", "your benefit",
    "the moon", "goods as is", "a Penalty", "SOLE DISCRETION",
    "immediate termination" }

ClauseTexts ==
    {ClauseLead \o " " \o join(q, " ") :
        q \in UNION {SeqsOf(ClauseFragments, n) : n \in 1..MaxFragments}}

ClauseRequests == {[kind |-> "clause", text |-> t] : t \in ClauseTexts}

\* analyzeClause applied to one clause, as generateFlowData does for a node
AnalyzeClause ==
    /\ pc = "start"
    /\ req.kind = "clause"
    /\ pc' = "done"
    /\ clauses' = <<req.text>>
    /\ nodes' = <<makeNode(req.text, 1)>>
    /\ UNCHANGED <<req, status, riskScore, relationships, answer, summaryResult, calls,
                   segmented, buffer, position, scored, clientVars>>

InitClause == req \in ClauseRequests /\ InitResponse

SpecClause == InitClause /\ [][AnalyzeClause]_vars

(***************************************************************************)
(* Claims about the visualization pass                                     *)
(***************************************************************************)

\* the rules of analyzeClause in the priority order of the spec
CategoryRules == <<
    [type |-> "financial", keywords |-> {"payment", "fee", "cost", "compensation"}],
    [type |-> "termination", keywords |-> {"terminat", "end", "cancel", "expire"}],
    [type |-> "liability",
     keywords |-> {"liability", "damages", "indemnif", "waive", "disclaim", "limit"}],
    [type |-> "intellectual_property",
     keywords |-> {"intellectual property", "copyright", "trademark", "patent", "proprietary"}],
    [type |-> "confidentiality",
     keywords |-> {"confidential", "non-disclosure", "proprietary information", "trade secret"}],
    [type |-> "obligation", keywords |-> {"shall", "must", "required", "obligation"}],
    [type |-> "warranty", keywords |-> {"warrant", "represent", "guarantee", "assure"}],
    [type |-> "dispute_resolution",
     keywords |-> {"dispute", "arbitration", "mediation", "litigation"}],
    [type |-> "governing_law",
     keywords |-> {"governing law", "jurisdiction", "venue", "court"}],
    [type |-> "benefit", keywords |-> {"benefit", "advantage", "protection", "right"}] >>

MatchingRules(clause) ==
    {k \in 1..Len(CategoryRules) :
        \E w \in CategoryRules[k].keywords : includes(toLowerCase(clause), w)}

ClauseDone == pc = "done" /\ req.kind = "clause"

\* C2: the category of a clause is that of the first rule that matches in the
\* order financial, termination, liability, intellectual_property,
\* confidentiality, obligation, warranty, dispute_resolution, governing_law,
\* benefit, and general when no rule matches.
C2_FirstCategoryWins ==
    ClauseDone =>
        LET m == MatchingRules(req.text)
        IN  nodes[1].type = IF m = {} THEN "general" ELSE CategoryRules[SetMin(m)].type

\* a clause that satisfies the termination rule and the liability rule
C2_Witness ==
    /\ ClauseDone
    /\ {2, 3} \subseteq MatchingRules(req.text)
    /\ 1 \notin MatchingRules(req.text)
    /\ nodes[1].type = "termination"

DefaultRisk(type) ==
    CASE type = "liability" -> "high"
      [] type \in {"financial", "termination", "intellectual_property",
                   "confidentiality", "obligation", "dispute_resolution"} -> "medium"
      [] type \in {"warranty", "governing_law", "general"} -> "low"
      [] type = "benefit" -> "positive"

OverridePhrases == {
    "unlimited liability", "personal guarantee", "waive all rights", "no recourse",
    "as is", "without warranty", "sole discretion", "immediate termination",
    "liquidated damages", "penalty" }

HasOverride(clause) == \E w \in OverridePhrases : includes(toLowerCase(clause), w)

TypeCategory == [
    financial |-> "Financial Terms", termination |-> "Termination",
    liability |-> "Liability & Risk", intellectual_property |-> "Intellectual Property",
    confidentiality |-> "Confidentiality", obligation |-> "Obligations",
    warranty |-> "Warranties", dispute_resolution |-> "Dispute Resolution",
    governing_law |-> "Legal Framework", benefit |-> "Benefits & Rights",
    general |-> "General" ]

\* C3: the risk level of a clause is the default of its category, unless the
\* lower-cased text contains an override phrase, and then it is high; the
\* override leaves the type and the category what the rules made them.
C3_RiskLevelOfCategory ==
    ClauseDone =>
        LET m == MatchingRules(req.text)
            type == IF m = {} THEN "general" ELSE CategoryRules[SetMin(m)].type
        IN  /\ nodes[1].riskLevel =
                   IF HasOverride(req.text) THEN "high" ELSE DefaultRisk(nodes[1].type)
            /\ nodes[1].type = type
            /\ nodes[1].category = TypeCategory[type]

\* an override phrase in a clause whose category is low by default
C3_Witness ==
    /\ ClauseDone
    /\ HasOverride(req.text)
    /\ nodes[1].type = "warranty"
    /\ DefaultRisk(nodes[1].type) = "low"
    /\ nodes[1].riskLevel = "high"

FlowDone == pc = "done" /\ req.kind = "visualize" /\ status = 200

\* C6: no two relationships join the same ordered pair of clauses, a
\* relationship leads from a clause to a later one, never to itself.
C6_OnePerPair ==
    FlowDone =>
        /\ \A a, b \in 1..Len(relationships) :
               (relationships[a].from = relationships[b].from
                /\ relationships[a].to = relationships[b].to) => a = b
        /\ \A a \in 1..Len(relationships) :
               /\ relationships[a].from # relationships[a].to
               /\ \E i, j \in 1..Len(nodes) :
                      /\ i < j
                      /\ nodes[i].id = relationships[a].from
                      /\ nodes[j].id = relationships[a].to

\* three clauses of one category: every pair is joined, once
C6_Witness ==
    /\ FlowDone
    /\ Len(nodes) = 3
    /\ Len(relationships) = 3
    /\ nodes[1].category = nodes[3].category
    /\ nodes[1].category # "General"

\* the rules of findRelationship in the priority order of the spec, for the
\* clauses at positions i < j
RelationRules == <<"sequential", "conditional", "reference", "conflict", "category", "dependency">>

RuleApplies(k, i, j, lower) ==
    CASE k = 1 -> j - i = 1
      [] k = 2 -> /\ \E w \in {"if", "provided that", "subject to"} : includes(lower[i], w)
                  /\ \E w \in {"then", "shall", "must"} : includes(lower[j], w)
      [] k = 3 -> \E w \in {"section", "paragraph", "clause"} : includes(lower[i], w)
      [] k = 4 -> {nodes[i].riskLevel, nodes[j].riskLevel} = {"high", "positive"}
      [] k = 5 -> nodes[i].category = nodes[j].category /\ nodes[i].category # "General"
      [] k = 6 -> \/ nodes[i].type = "obligation" /\ nodes[j].type = "financial"
                  \/ nodes[i].type = "termination" /\ nodes[j].type = "liability"

\* the clause texts in lower case
LowerClauses == [i \in 1..Len(clauses) |-> toLowerCase(clauses[i])]

ApplicableRules(i, j, lower) == {k \in 1..6 : RuleApplies(k, i, j, lower)}

RelationshipsOf(i, j) ==
    {a \in 1..Len(relationships) :
        relationships[a].from = nodes[i].id /\ relationships[a].to = nodes[j].id}

\* C7: the relationship of a pair i < j is the first rule that applies in
\* the order sequential, conditional, reference, conflict, category,
\* dependency; no relationship when none applies; adjacent pairs are
\* sequential.
C7_FirstRelationWins ==
    FlowDone =>
        LET lower == LowerClauses
        IN  \A i, j \in 1..Len(nodes) :
                i < j =>
                    LET rules == ApplicableRules(i, j, lower)
                    IN  IF rules = {}
                        THEN RelationshipsOf(i, j) = {}
                        ELSE /\ RelationshipsOf(i, j) # {}
                             /\ \A a \in RelationshipsOf(i, j) :
                                    relationships[a].type = RelationRules[SetMin(rules)]

\* a pair two clauses apart to which the conditional and the reference rule
\* apply, next to adjacent pairs
C7_Witness ==
    /\ FlowDone
    /\ Len(nodes) = 3
    /\ {2, 3} \subseteq ApplicableRules(1, 3, LowerClauses)
    /\ \E a \in RelationshipsOf(1, 3) : relationships[a].type = "conditional"
    /\ \E a \in RelationshipsOf(1, 2) : relationships[a].type = "sequential"

(***************************************************************************)
(* POST to the chat route                                                  *)
(***************************************************************************)

\* sentences of a context drawn from all of ContextSentences
MaxTopicSentences == 2

\* sentences of a context drawn from RankedSentencePool: more than the
\* ranking quotes
MaxContextSentences == 4

Questions == {
    "",
    "How much is the penalty fee?",
    "What is the payment risk",
    "Who is the contractor and when",
    "When must it end",
    "Is there a penalty to terminate",
    "Can they cancel this duty",
    "Which duty has a warranty",
    "Any guarantee given",
    "Is Delaware governing",
    "Is Delaware governing for thirty days",
    "Does the moon shine",
    "Explain thirty days",
    "Who is governing Delaware" }

ContextSentences == {
    "A $500 penalty for late payment applies",
    "Confidential Information means any data shared",
    "The Contractor shall finish within thirty days",
    "This deal is governed by the laws of Delaware",
    "We guarantee it",
    "Delaware courts are governing all of Delaware" }

\* the sentences that share a word with the questions no topic takes: with
\* "Is Delaware governing for thirty days" they score 2, 1 and 2
RankedSentencePool == {
    "The Contractor shall finish within thirty days",
    "This deal is governed by the laws of Delaware",
    "Delaware courts are governing all of Delaware" }

Contexts ==
    {""}
    \cup {join(q, ". ") :
             q \in UNION {SeqsOf(ContextSentences, n) : n \in 1..MaxTopicSentences}}
    \cup {join(q, ". ") :
             q \in UNION {SeqsOf(RankedSentencePool, n) : n \in 1..MaxContextSentences}}

\* What the Hugging Face call does: <<>> when it fails (no key, an HTTP
\* error, an error result), <<a>> when its result carries the answer a.
HuggingFaceResults == {<<>>, <<"">>, <<"within thirty days">>}

ChatRequests ==
    {[kind |-> "chat", question |-> q, context |-> c, hf |-> h] :
        q \in Questions, c \in Contexts, h \in HuggingFaceResults}

\* the handler up to its first await: the validation, which answers 400,
\* or the call of generateAnswerWithFreeAPI
ChatHandler ==
    /\ pc = "start"
    /\ req.kind = "chat"
    /\ IF req.question = "" \/ req.context = ""
       THEN /\ pc' = "done"
            /\ status' = 400
            /\ calls' = <<>>
       ELSE /\ pc' = "generateAnswerWithFreeAPI"
            /\ status' = status
            /\ calls' = <<"generateAnswerWithFreeAPI">>
    /\ UNCHANGED <<req, clauses, riskScore, nodes, relationships, answer,
                   summaryResult, segmented, buffer, position, scored, clientVars>>

\* generateAnswerWithFreeAPI settles: with the answer of Hugging Face the
\* handler goes on to its end (the answer is checked and the response is
\* sent); when it throws the handler calls generateRuleBasedAnswer
FreeAPISettles ==
    /\ pc = "generateAnswerWithFreeAPI"
    /\ req.kind = "chat"
    /\ IF Len(req.hf) > 0
       THEN \E found \in {huggingFaceAnswer(req.hf[1])} :
                /\ pc' = "done"
                /\ calls' = calls
                /\ IF trim(found) = ""
                   THEN status' = 500 /\ answer' = ""
                   ELSE status' = 200 /\ answer' = found
       ELSE /\ pc' = "generateRuleBasedAnswer"
            /\ calls' = Append(calls, "generateRuleBasedAnswer")
            /\ UNCHANGED <<status, answer>>
    /\ UNCHANGED <<req, clauses, riskScore, nodes, relationships, summaryResult,
                   segmented, buffer, position, scored, clientVars>>

\* generateRuleBasedAnswer resolves: the handler goes on to its end
RuleBasedAnswers ==
    /\ pc = "generateRuleBasedAnswer"
    /\ req.kind = "chat"
    /\ pc' = "done"
    /\ \E found \in {generateRuleBasedAnswer(req.question, req.context)} :
           IF trim(found) = ""
           THEN status' = 500 /\ answer' = ""
           ELSE status' = 200 /\ answer' = found
    /\ UNCHANGED <<req, clauses, riskScore, nodes, relationships, summaryResult,
                   calls, segmented, buffer, position, scored, clientVars>>

InitChat == req \in ChatRequests /\ InitResponse

NextChat == ChatHandler \/ FreeAPISettles \/ RuleBasedAnswers

SpecChat == InitChat /\ [][NextChat]_vars

(***************************************************************************)
(* extractClauses on its own, one sentence of its loop at a time           *)
(***************************************************************************)

MaxExtractSentences == 3

LongSentence ==
    "The buyer will collect the goods from the depot on the first working day of every month and will bring along enough workers to load all of them onto the lorry at once"

ExtractSentences == {
    "Whereas it is so agreed now",
    "Section two applies if the goods are late",
    "THEREFORE the seller ships the goods by sea",
    "The buyer will collect the goods",
    "we like the blue boxes most",
    LongSentence }

\* texts of white space and punctuation only
MaxChunks == 2

PunctuationChunks ==
    {" ", ".", "!?..", "\n\t\f  ", "                         ", ",,,,,,,,,,,", "-- -- -- --", ";:()"}

PunctuationTexts ==
    {join(q, "") : q \in UNION {SeqsOf(PunctuationChunks, n) : n \in 0..MaxChunks}}

\* a marker sentence that is longer than the cap on its own
LongMarkerSentence ==
    "Section nine provides that " \o LongSentence \o " and further that " \o LongSentence

\* documents whose buffer passes the cap with and without a marker sentence
CapTexts == {
    LongMarkerSentence \o ". The buyer will collect the goods.",
    LongSentence \o ". " \o LongSentence \o ". we like the blue boxes most. "
        \o LongMarkerSentence \o ". The buyer will collect the goods." }

ExtractTexts ==
    PunctuationTexts
    \cup CapTexts
    \cup {join(q, ". ") \o "." :
             q \in UNION {SeqsOf(ExtractSentences, n) : n \in 1..MaxExtractSentences}}

ExtractRequests == {[kind |-> "extract", text |-> t] : t \in ExtractTexts}

\* const sentences = text.split(/[.!?]+/).filter(...); clauses = [];
\* currentClause = ''
ExtractStart ==
    /\ pc = "start"
    /\ req.kind = "extract"
    /\ pc' = "loop"
    /\ segmented' = segmentSentences(req.text)
    /\ clauses' = <<>>
    /\ buffer' = ""
    /\ position' = 1
    /\ UNCHANGED <<req, status, riskScore, nodes, relationships, answer,
                   summaryResult, calls, scored, clientVars>>

\* one pass of for (const sentence of sentences)
ExtractSentence ==
    /\ pc = "loop"
    /\ position <= Len(segmented)
    /\ \E st \in {extractStep([clauses |-> clauses, currentClause |-> buffer],
                              segmented[position])} :
           /\ clauses' = st.clauses
           /\ buffer' = st.currentClause
    /\ position' = position + 1
    /\ UNCHANGED <<req, pc, status, riskScore, nodes, relationships, answer,
                   summaryResult, calls, segmented, scored, clientVars>>

\* the end of the loop without the push of what is left in the buffer
ExtractFlush_dropsBuffer ==
    /\ pc = "loop"
    /\ position > Len(segmented)
    /\ pc' = "filter"
    /\ clauses' = clauses
    /\ UNCHANGED <<req, status, riskScore, nodes, relationships, answer,
                   summaryResult, calls, segmented, buffer, position, scored, clientVars>>

\* if (currentClause.trim()) clauses.push(currentClause.trim())
ExtractFlush ==
    /\ pc = "loop"
    /\ position > Len(segmented)
    /\ pc' = "filter"
    /\ clauses' = IF trim(buffer) # "" THEN Append(clauses, trim(buffer)) ELSE clauses
    /\ UNCHANGED <<req, status, riskScore, nodes, relationships, answer,
                   summaryResult, calls, segmented, buffer, position, scored, clientVars>>

\* the return without the filter: return clauses
ExtractFilter_keepAll ==
    /\ pc = "filter"
    /\ pc' = "done"
    /\ clauses' = clauses
    /\ UNCHANGED <<req, status, riskScore, nodes, relationships, answer,
                   summaryResult, calls, segmented, buffer, position, scored, clientVars>>

\* return clauses.filter(clause => clause.length > 30)
ExtractFilter ==
    /\ pc = "filter"
    /\ pc' = "done"
    /\ clauses' = FilterSeq(clauses,
                            {i \in 1..Len(clauses) : Len(clauses[i]) > MinClauseLength}, 1)
    /\ UNCHANGED <<req, status, riskScore, nodes, relationships, answer,
                   summaryResult, calls, segmented, buffer, position, scored, clientVars>>

InitExtract == req \in ExtractRequests /\ InitResponse

NextExtract == ExtractStart \/ ExtractSentence \/ ExtractFlush \/ ExtractFilter

SpecExtract == InitExtract /\ [][NextExtract]_vars

\* the loop, taken step by step, returns what extractClauses returns
ExtractAgrees == (req.kind = "extract" /\ pc = "done") => clauses = extractClauses(req.text)

(***************************************************************************)
(* POST /api/summarize                                                     *)
(***************************************************************************)

MaxSummarySentences == 4

SummarySentences == {
    "The parties sign this contract today",
    "Payment is due within thirty days of the invoice date each month",
    "The weather in Oslo was fine that day",
    "Any dispute goes to arbitration in Paris" }

\* a document of 17 sentences, and one of short remarks that segments into
\* no sentence
LongDocument ==
    join([i \in 1..17 |->
            IF i % 4 = 1 THEN "The weather in Oslo was fine on day " \o NatToString(i)
            ELSE IF i % 4 = 2 THEN "Payment number " \o NatToString(i) \o " is due at once"
            ELSE IF i % 4 = 3 THEN "Any dispute on item " \o NatToString(i) \o " goes to arbitration"
            ELSE "The buyer collects box number " \o NatToString(i)], ". ") \o "."

Remarks == "Yes. No. It may be so. Who can tell? Not us! We shall see. Time will tell."

SummaryTexts ==
    {"", LongDocument, Remarks}
    \cup {join(q, ". ") \o "." :
             q \in UNION {SeqsOf(SummarySentences, n) : n \in 1..MaxSummarySentences}}

\* what summarizeWithHuggingFace can return when it does not throw
HuggingFaceSummaries == {
    <<"">>,
    <<"Agreed.">>,
    <<"  The parties will meet in Oslo to sign!  ">>,
    <<"Pay now. The fee is due on the first day. It is so agreed by both sides. No refunds are given here.">> }

SummarizeRequests ==
    {[kind |-> "summarize", text |-> t, hf |-> <<>>] : t \in SummaryTexts}
    \cup {[kind |-> "summarize", text |-> t, hf |-> h] :
             t \in {"", "Too short to summarize", LongDocument}, h \in HuggingFaceSummaries}

\* the handler up to its first await: the validation, which answers 400,
\* or the call of summarizeWithHuggingFace
SummarizeHandler ==
    /\ pc = "start"
    /\ req.kind = "summarize"
    /\ \E response \in {summarizeHandler(req.text, req.hf)} :
           IF response.status = 400
           THEN /\ pc' = "done"
                /\ status' = response.status
                /\ summaryResult' = response.result
                /\ calls' = response.calls
           ELSE /\ pc' = "summarizeWithHuggingFace"
                /\ calls' = <<"summarizeWithHuggingFace">>
                /\ UNCHANGED <<status, summaryResult>>
    /\ UNCHANGED <<req, clauses, riskScore, nodes, relationships, answer,
                   segmented, buffer, position, scored, clientVars>>

\* summarizeWithHuggingFace settles: with its summary the handler goes on to
\* its end (the summary is checked, the result is built and the response
\* is sent); when it throws the handler calls summarizeWithFreeAPI
HuggingFaceSettles ==
    /\ pc = "summarizeWithHuggingFace"
    /\ req.kind = "summarize"
    /\ IF Len(req.hf) > 0
       THEN \E response \in {summarizeHandler(req.text, req.hf)} :
                /\ pc' = "done"
                /\ status' = response.status
                /\ summaryResult' = response.result
                /\ calls' = response.calls
       ELSE /\ pc' = "summarizeWithFreeAPI"
            /\ calls' = Append(calls, "summarizeWithFreeAPI")
            /\ UNCHANGED <<status, summaryResult>>
    /\ UNCHANGED <<req, clauses, riskScore, nodes, relationships, answer,
                   segmented, buffer, position, scored, clientVars>>

\* summarizeWithFreeAPI throws: the handler calls ruleBasedSummarization
FreeAPIRejects ==
    /\ pc = "summarizeWithFreeAPI"
    /\ req.kind = "summarize"
    /\ pc' = "ruleBasedSummarization"
    /\ calls' = Append(calls, "ruleBasedSummarization")
    /\ UNCHANGED <<req, status, clauses, riskScore, nodes, relationships, answer,
                   summaryResult, segmented, buffer, position, scored, clientVars>>

\* ruleBasedSummarization resolves: the handler goes on to its end
RuleBasedResolves ==
    /\ pc = "ruleBasedSummarization"
    /\ req.kind = "summarize"
    /\ pc' = "done"
    /\ \E response \in {summarizeHandler(req.text, req.hf)} :
           /\ status' = response.status
           /\ summaryResult' = response.result
           /\ calls' = response.calls
    /\ UNCHANGED <<req, clauses, riskScore, nodes, relationships, answer,
                   segmented, buffer, position, scored, clientVars>>

InitSummarize == req \in SummarizeRequests /\ InitResponse

NextSummarize ==
    SummarizeHandler \/ HuggingFaceSettles \/ FreeAPIRejects \/ RuleBasedResolves

SpecSummarize == InitSummarize /\ [][NextSummarize]_vars

(***************************************************************************)
(* The length validation of the summarize and analyze routes: texts on     *)
(* both sides of the minimum                                               *)
(***************************************************************************)

IntakeDocument ==
    "Either party may end this contract. Payment terms apply to the employee until termination of the employment."

IntakeTexts == {SubSeq(IntakeDocument, 1, n) : n \in 0..Len(IntakeDocument)}

IntakeRequests ==
    {[kind |-> "analyze", text |-> t] : t \in IntakeTexts}
    \cup {[kind |-> "summarize", text |-> t, hf |-> h] :
             t \in IntakeTexts, h \in {<<>>} \cup HuggingFaceSummaries}

InitIntake == req \in IntakeRequests /\ InitResponse

NextIntake == NextAnalyze \/ NextSummarize

SpecIntake == InitIntake /\ [][NextIntake]_vars

(***************************************************************************)
(* The analysis and the visualization of two-sentence agreements           *)
(***************************************************************************)

ScenarioText ==
    "This Agreement between Acme Corp and Jane Doe includes a clause: Employee waives all rights to overtime pay. This section shall be governed by the laws of Delaware."

OpeningSentences == {
    "This Agreement between Acme Corp and Jane Doe includes a clause: Employee waives all rights to overtime pay",
    "This Agreement between Acme Corp and Jane Doe includes a clause: Employee is paid for all overtime",
    "This Agreement between Acme Corp and Jane Doe carries unlimited liability for the Employee",
    "Acme Corp and Jane Doe have agreed on the working hours of the Employee",
    "Jane Doe may terminate without notice at her sole discretion" }

ClosingSentences == {
    "This section shall be governed by the laws of Delaware",
    "The governing law of this section is the law of Delaware",
    "Section nine names the governing law, which is that of Delaware",
    "Any dispute goes to arbitration in the state of Delaware",
    "The courts of Delaware have jurisdiction over this section",
    "This section is about the weather in the state of Delaware" }

ScenarioTexts == {a \o ". " \o b \o "." : a \in OpeningSentences, b \in ClosingSentences}

ScenarioRequests ==
    {[kind |-> k, text |-> t] : k \in {"analyze", "visualize"}, t \in ScenarioTexts}

InitScenario == req \in ScenarioRequests /\ InitResponse

NextScenario == NextAnalyze \/ NextVisualize

SpecScenario == InitScenario /\ [][NextScenario]_vars

(***************************************************************************)
(* ruleBasedSummarization in two steps, the scored sentences in between:   *)
(* documents of sentences with a repeated keyword, with several keywords   *)
(* and with lengths at both ends of the medium range                       *)
(***************************************************************************)

MaxScoredSentences == 3

ScoredSentencePool == {
    "The payment follows every payment notice from us",
    "Both parties accept the terms of the contract and the liability",
    "Oslo was cold and wet on that long day in the fall",
    LongSentence \o " and then drives back to the town" }

RuleBasedRequests ==
    {[kind |-> "ruleBased", text |-> join(q, ". ") \o "."] :
        q \in UNION {SeqsOf(ScoredSentencePool, n) : n \in 1..MaxScoredSentences}}
    \cup {[kind |-> "ruleBased", text |-> Remarks]}

\* const sentences = ...; if (sentences.length === 0) return 'Unable ...';
\* const scoredSentences = sentences.map(...)
ScoreSentences ==
    /\ pc = "start"
    /\ req.kind = "ruleBased"
    /\ \E sentences \in {segmentSentences(req.text)} :
           /\ segmented' = sentences
           /\ IF Len(sentences) = 0
              THEN /\ pc' = "done"
                   /\ scored' = <<>>
                   /\ answer' = UnableToSummarize
              ELSE /\ pc' = "scored"
                   /\ scored' = [i \in 1..Len(sentences) |-> scoredSentence(sentences, i)]
                   /\ answer' = answer
    /\ UNCHANGED <<req, status, clauses, riskScore, nodes, relationships,
                   summaryResult, calls, buffer, position, clientVars>>

\* the top sentences, the document type and the returned summary; the
\* first sort is Array.prototype.sort on scoredSentences itself, which
\* leaves that array in falling score order
SelectSentences ==
    /\ pc = "scored"
    /\ req.kind = "ruleBased"
    /\ pc' = "done"
    /\ scored' = sortDescending(scored, 1..Len(scored))
    /\ answer' = ruleBasedSummarization(req.text)
    /\ UNCHANGED <<req, status, clauses, riskScore, nodes, relationships,
                   summaryResult, calls, segmented, buffer, position,
                   clientVars>>

InitRuleBased == req \in RuleBasedRequests /\ InitResponse

NextRuleBased == ScoreSentences \/ SelectSentences

SpecRuleBased == InitRuleBased /\ [][NextRuleBased]_vars

(***************************************************************************)
(* src/lib/utils.ts retry, as src/lib/apiClient.ts calls it                *)
(***************************************************************************)

\* the second argument of retry in extractText, summarizeText, analyzeText
OcrMaxAttempts == 2
SummarizeMaxAttempts == 2
AnalyzeMaxAttempts == 2

\* the third argument: the delay in milliseconds
OcrDelay == 2000
SummarizeDelay == 1500
AnalyzeDelay == 1500

\* the calls retry(fn, maxAttempts, delay) of the API client
RetryCalls == {
    [kind |-> "retry", api |-> "extractText",
     maxAttempts |-> OcrMaxAttempts, delay |-> OcrDelay],
    [kind |-> "retry", api |-> "summarizeText",
     maxAttempts |-> SummarizeMaxAttempts, delay |-> SummarizeDelay],
    [kind |-> "retry", api |-> "analyzeText",
     maxAttempts |-> AnalyzeMaxAttempts, delay |-> AnalyzeDelay] }

\* the codes of the AppError that request() throws
RequestErrors == {
    "INVALID_INPUT", "API_TIMEOUT", "FILE_TOO_LARGE", "UNSUPPORTED_FORMAT",
    "RATE_LIMITED", "NETWORK_ERROR" }

\* for (let attempt = 1; ...) { try { return await fn()
RetryStart ==
    /\ pc = "start"
    /\ req.kind = "retry"
    /\ IF 1 <= req.maxAttempts
       THEN pc' = "request" /\ attempt' = 1
       ELSE pc' = "rejected" /\ attempt' = attempt
    /\ UNCHANGED <<req, status, clauses, riskScore, nodes, relationships, answer,
                   summaryResult, calls, segmented, buffer, position, scored,
                   hook, abortControllerRef, controllers, runs, storage,
                   issued, lastError>>

\* fn() resolves: return await fn()
RequestResolves ==
    /\ pc = "request"
    /\ req.kind = "retry"
    /\ issued' = Append(issued, "ok")
    /\ pc' = "resolved"
    /\ UNCHANGED <<req, status, clauses, riskScore, nodes, relationships, answer,
                   summaryResult, calls, segmented, buffer, position, scored,
                   hook, abortControllerRef, controllers, runs, storage,
                   attempt, lastError>>

\* fn() rejects: catch (error) { lastError = ...; if (attempt === maxAttempts)
\* throw lastError; ...; await the delay
RequestRejects ==
    /\ pc = "request"
    /\ req.kind = "retry"
    /\ \E error \in RequestErrors :
           /\ issued' = Append(issued, error)
           /\ lastError' = error
    /\ pc' = IF attempt = req.maxAttempts THEN "rejected" ELSE "delay"
    /\ UNCHANGED <<req, status, clauses, riskScore, nodes, relationships, answer,
                   summaryResult, calls, segmented, buffer, position, scored,
                   hook, abortControllerRef, controllers, runs, storage,
                   attempt>>

\* the delay is over: attempt++ and, while attempt <= maxAttempts, fn() again
DelayElapses ==
    /\ pc = "delay"
    /\ req.kind = "retry"
    /\ attempt' = attempt + 1
    /\ pc' = IF attempt + 1 <= req.maxAttempts THEN "request" ELSE "rejected"
    /\ UNCHANGED <<req, status, clauses, riskScore, nodes, relationships, answer,
                   summaryResult, calls, segmented, buffer, position, scored,
                   hook, abortControllerRef, controllers, runs, storage,
                   issued, lastError>>

InitRetry == req \in RetryCalls /\ InitResponse

NextRetry == RetryStart \/ RequestResolves \/ RequestRejects \/ DelayElapses

SpecRetry == InitRetry /\ [][NextRetry]_vars

(***************************************************************************)
(* src/unnamed/part_008: the useChat hook.  hook holds messages,           *)
(* isLoading, error (<<>> for null) and isTyping, and what React keeps of  *)
(* the component: mounted (the effects of the first render have run),      *)
(* rendered (the messages of the last render) and saving (the messages of  *)
(* the render whose save effect has not run yet, <<>> for none).  A        *)
(* controller is the position of its aborted flag in controllers; runs     *)
(* holds one entry per call of sendMessage that reached its request.       *)
(***************************************************************************)

\* calls of sendMessage that reach the request, per mounted hook
MaxSends == 3

\* the second content is white space only: blank, vertical tab, no-break space
ChatContents == {"", "   ", " Who pays the fee? ", "When is it due?"}

ChatDocuments == {"", "The buyer pays the fee. It is due in May."}

ChatHookRequests == {[kind |-> "useChat", documentText |-> d] : d \in ChatDocuments}

NoDocumentLoaded == "No document loaded. Please upload and analyze a document first."

\* the messages of what apiClient.chatWithDocument can throw: a text
\* request() or chatWithDocument makes up, or the error of the response
\* body as the Error constructor makes it a string, which is empty for an
\* error of [] or [""]
ChatErrors == STRING

\* the messages the requests of the model fail with
ChatErrorInputs == {"", "Request timed out", "HTTP 503: Service Unavailable"}

\* a ChatMessage; request is the call of sendMessage that made it (the ids
\* of the code tell the messages apart)
ChatMessage(role, content, isError, request) ==
    [role |-> role, content |-> content, isError |-> isError, request |-> request]

\* if (messages.length > 0) storage.set(CHAT_HISTORY, messages): what is
\* stored after the save effect of a render with these messages
savedMessages(messages, stored) == IF Len(messages) > 0 THEN messages ELSE stored

\* what storage holds under CHAT_HISTORY when the hook mounts: nothing, or
\* the messages an earlier mount saved (request 0)
ChatHistories == {
    <<>>,
    <<ChatMessage("user", "What is the term?", FALSE, 0),
      ChatMessage("assistant", "The answer", FALSE, 0)>> }

\* abortControllerRef.current?.signal.aborted
refAborted == abortControllerRef # 0 /\ controllers[abortControllerRef]

\* if (abortControllerRef.current) abortControllerRef.current.abort()
abortCurrent ==
    IF abortControllerRef # 0
    THEN [controllers EXCEPT ![abortControllerRef] = TRUE]
    ELSE controllers

\* sendMessage up to its await.  The isLoading of its guard is the one of
\* the render that made the callback (useCallback, deps [documentText,
\* isLoading]): false for a callback made before the request started, also
\* when it is called before the hook has rendered again, and the current
\* value for the callback of the current render.  The messages are saved by
\* the effect of a later render, not here.
SendMessage ==
    /\ req.kind = "useChat"
    /\ Len(runs) < MaxSends
    /\ \E content \in ChatContents, isLoading \in {FALSE, hook.isLoading} :
           IF trim(content) = "" \/ isLoading
           THEN UNCHANGED <<hook, abortControllerRef, controllers, runs, storage>>
           ELSE IF req.documentText = ""
           THEN /\ hook' = [hook EXCEPT !.error = <<NoDocumentLoaded>>]
                /\ UNCHANGED <<abortControllerRef, controllers, runs, storage>>
           ELSE LET userMessage ==
                        ChatMessage("user", trim(content), FALSE, Len(runs) + 1)
                    messages == Append(hook.messages, userMessage)
                IN  /\ controllers' = Append(abortCurrent, FALSE)
                    /\ abortControllerRef' = Len(controllers) + 1
                    /\ hook' = [hook EXCEPT !.messages = messages,
                                            !.isLoading = TRUE, !.error = <<>>,
                                            !.isTyping = TRUE]
                    /\ runs' = Append(runs, [state |-> "pending", cleared |-> FALSE])
                    /\ UNCHANGED storage
    /\ UNCHANGED <<serverVars, attempt, issued, lastError>>

\* chatWithDocument resolves: the rest of the try block, and finally
ResponseArrives ==
    /\ req.kind = "useChat"
    /\ \E r \in 1..Len(runs) :
           /\ runs[r].state = "pending"
           /\ runs' = [runs EXCEPT ![r].state = "settled"]
           /\ LET assistantMessage ==
                      ChatMessage("assistant", "The answer", FALSE, r)
                  messages == IF refAborted THEN hook.messages
                              ELSE Append(hook.messages, assistantMessage)
              IN  hook' = [hook EXCEPT !.messages = messages,
                                       !.isLoading = FALSE, !.isTyping = FALSE]
    /\ abortControllerRef' = 0
    /\ UNCHANGED <<serverVars, controllers, storage, attempt, issued, lastError>>

\* chatWithDocument rejects: the catch block, and finally
ErrorArrives ==
    /\ req.kind = "useChat"
    /\ \E r \in 1..Len(runs), errorMessage \in ChatErrorInputs :
           /\ runs[r].state = "pending"
           /\ runs' = [runs EXCEPT ![r].state = "settled"]
           /\ LET errorChatMessage ==
                      ChatMessage("assistant",
                                  "Sorry, I encountered an error: " \o errorMessage,
                                  TRUE, r)
                  messages == IF refAborted THEN hook.messages
                              ELSE Append(hook.messages, errorChatMessage)
              IN  hook' = [hook EXCEPT !.messages = messages,
                                       !.error = IF refAborted THEN @
                                                 ELSE <<errorMessage>>,
                                       !.isLoading = FALSE, !.isTyping = FALSE]
    /\ abortControllerRef' = 0
    /\ UNCHANGED <<serverVars, controllers, storage, attempt, issued, lastError>>

\* clearChat; the cleared field of a run records that the chat was cleared
\* while the run was pending.  A save effect that is pending stays pending.
ClearChat ==
    /\ req.kind = "useChat"
    /\ controllers' = abortCurrent
    /\ hook' = [hook EXCEPT !.messages = <<>>, !.isLoading = FALSE,
                            !.error = <<>>, !.isTyping = FALSE]
    /\ storage' = <<>>
    /\ runs' = [r \in 1..Len(runs) |->
                    IF runs[r].state = "pending"
                    THEN [runs[r] EXCEPT !.cleared = TRUE] ELSE runs[r]]
    /\ UNCHANGED <<serverVars, abortControllerRef, attempt, issued, lastError>>

\* the effects of the first render: the stored history, when there is one,
\* becomes the messages; the save effect of that render finds no message
LoadChatHistory ==
    /\ req.kind = "useChat"
    /\ ~hook.mounted
    /\ hook' = [hook EXCEPT !.mounted = TRUE,
                            !.messages = IF Len(storage) > 0 THEN storage ELSE @]
    /\ UNCHANGED <<serverVars, abortControllerRef, controllers, runs, storage,
                   attempt, issued, lastError>>

\* React renders the hook again after setMessages, once the effects of the
\* render before have run: the save effect of this render is pending, with
\* the messages of this render
RenderChat ==
    /\ req.kind = "useChat"
    /\ hook.mounted
    /\ hook.saving = <<>>
    /\ hook.rendered # hook.messages
    /\ hook' = [hook EXCEPT !.rendered = hook.messages,
                            !.saving = <<hook.messages>>]
    /\ UNCHANGED <<serverVars, abortControllerRef, controllers, runs, storage,
                   attempt, issued, lastError>>

\* the save effect of the last render runs
SaveMessages ==
    /\ req.kind = "useChat"
    /\ hook.saving # <<>>
    /\ storage' = savedMessages(hook.saving[1], storage)
    /\ hook' = [hook EXCEPT !.saving = <<>>]
    /\ UNCHANGED <<serverVars, abortControllerRef, controllers, runs,
                   attempt, issued, lastError>>

InitChatHook ==
    /\ req \in ChatHookRequests
    /\ NoResponse
    /\ hook = [messages |-> <<>>, isLoading |-> FALSE, error |-> <<>>,
               isTyping |-> FALSE, mounted |-> FALSE, rendered |-> <<>>,
               saving |-> <<>>]
    /\ abortControllerRef = 0
    /\ controllers = <<>>
    /\ runs = <<>>
    /\ storage \in ChatHistories
    /\ attempt = 0
    /\ issued = <<>>
    /\ lastError = ""

NextChatHook ==
    \/ LoadChatHistory \/ SendMessage \/ ResponseArrives \/ ErrorArrives
    \/ ClearChat \/ RenderChat \/ SaveMessages

SpecChatHook == InitChatHook /\ [][NextChatHook]_vars

(***************************************************************************)
(* src/unnamed/part_007: the useDocumentAnalysis hook.  hook holds         *)
(* analysis (<<>> for null), loading, error (<<>> for null) and progress;  *)
(* runs holds one entry per call of analyzeDocument, with the API call it  *)
(* is waiting for.                                                         *)
(***************************************************************************)

\* calls of analyzeDocument per mounted hook
MaxAnalyses == 2

AnalysisFiles == {"lease.pdf", "offer.png"}

\* the messages of what extractText, summarizeText and analyzeText can
\* throw: a text request() or the method makes up, or the error of the
\* response body as the Error constructor makes it a string, which is empty
\* for an error of [] or [""]
AnalysisErrors == STRING

\* the messages the requests of the model fail with
AnalysisErrorInputs == {
    "", "Network error occurred", "Request timed out", "An unexpected error occurred",
    "HTTP 503: Service Unavailable", "HTTP 408: Request Timeout",
    "No text provided", "Body exceeded 1mb limit", "Failed to extract text" }

ExportFailed == "Failed to export analysis"

AnalysisCancelled == "Analysis cancelled"

\* the step after ocr, summarize, analyze
nextStep(step) ==
    CASE step = "ocr" -> "summarize"
      [] step = "summarize" -> "analyze"
      [] step = "analyze" -> "visualize"

\* the setProgress that opens the next step: 30, 55, 80
nextProgress(step) ==
    CASE step = "ocr" -> 30
      [] step = "summarize" -> 55
      [] step = "analyze" -> 80

\* the DocumentAnalysis of a run: its id and its file
DocumentAnalysis(r) == [id |-> r, fileName |-> runs[r].file]

\* analyzeDocument up to its first await
AnalyzeDocument ==
    /\ req.kind = "useDocumentAnalysis"
    /\ Len(runs) < MaxAnalyses
    /\ \E file \in AnalysisFiles :
           runs' = Append(runs, [step |-> "ocr", file |-> file, cleared |-> FALSE])
    /\ hook' = [analysis |-> <<>>, loading |-> TRUE, error |-> <<>>, progress |-> 10]
    /\ controllers' = Append(controllers, FALSE)
    /\ abortControllerRef' = Len(controllers) + 1
    /\ UNCHANGED <<serverVars, storage, attempt, issued, lastError>>

\* extractText, summarizeText or analyzeText resolves: the aborted check,
\* then the next step, or the catch and finally blocks
StepResolves ==
    /\ req.kind = "useDocumentAnalysis"
    /\ \E r \in 1..Len(runs) :
           /\ runs[r].step \in {"ocr", "summarize", "analyze"}
           /\ IF refAborted
              THEN /\ runs' = [runs EXCEPT ![r].step = "settled"]
                   /\ hook' = [hook EXCEPT !.error = <<AnalysisCancelled>>,
                                           !.progress = 0, !.loading = FALSE]
                   /\ abortControllerRef' = 0
              ELSE /\ runs' = [runs EXCEPT ![r].step = nextStep(runs[r].step)]
                   /\ hook' = [hook EXCEPT !.progress = nextProgress(runs[r].step)]
                   /\ abortControllerRef' = abortControllerRef
    /\ UNCHANGED <<serverVars, controllers, storage, attempt, issued, lastError>>

\* extractText, summarizeText or analyzeText rejects: catch and finally
StepRejects ==
    /\ req.kind = "useDocumentAnalysis"
    /\ \E r \in 1..Len(runs), errorMessage \in AnalysisErrorInputs :
           /\ runs[r].step \in {"ocr", "summarize", "analyze"}
           /\ runs' = [runs EXCEPT ![r].step = "settled"]
           /\ hook' = [hook EXCEPT !.error = <<errorMessage>>,
                                   !.progress = 0, !.loading = FALSE]
    /\ abortControllerRef' = 0
    /\ UNCHANGED <<serverVars, controllers, storage, attempt, issued, lastError>>

\* what compiling the result throws on an analysis whose clauses are no
\* array, or hold a clause without text: the message of the TypeError
CompileErrorInputs == {
    "clauses.reduce is not a function",
    "Cannot read properties of undefined (reading 'length')" }

\* generateVisualization resolves or rejects (its own catch only logs), and
\* the result is compiled: it is set and stored, or, when compiling throws,
\* the catch block sets the error; finally
VisualizationSettles ==
    /\ req.kind = "useDocumentAnalysis"
    /\ \E r \in 1..Len(runs),
          thrown \in {<<>>} \cup {<<message>> : message \in CompileErrorInputs} :
           /\ runs[r].step = "visualize"
           /\ IF thrown = <<>>
              THEN /\ runs' = [runs EXCEPT ![r].step = "completed"]
                   /\ hook' = [hook EXCEPT !.analysis = <<DocumentAnalysis(r)>>,
                                           !.progress = 100, !.loading = FALSE]
                   /\ storage' = <<DocumentAnalysis(r)>>
              ELSE /\ runs' = [runs EXCEPT ![r].step = "settled"]
                   /\ hook' = [hook EXCEPT !.error = thrown,
                                           !.progress = 0, !.loading = FALSE]
                   /\ storage' = storage
    /\ abortControllerRef' = 0
    /\ UNCHANGED <<serverVars, controllers, attempt, issued, lastError>>

\* clearAnalysis; the cleared field of a run records that the analysis was
\* cleared while the run was in flight
ClearAnalysis ==
    /\ req.kind = "useDocumentAnalysis"
    /\ controllers' = abortCurrent
    /\ hook' = [analysis |-> <<>>, loading |-> FALSE, error |-> <<>>, progress |-> 0]
    /\ storage' = <<>>
    /\ runs' = [r \in 1..Len(runs) |->
                    IF runs[r].step \notin {"settled", "completed"}
                    THEN [runs[r] EXCEPT !.cleared = TRUE] ELSE runs[r]]
    /\ UNCHANGED <<serverVars, abortControllerRef, attempt, issued, lastError>>

\* exportAnalysis when the download throws: setError('Failed to export
\* analysis').  (With no analysis, or when the download works, the call
\* changes nothing.)  The analysis of its guard is the one of the render
\* that made the callback (deps [analysis]): the current one, or the result
\* of a run that has completed before.
ExportAnalysis ==
    /\ req.kind = "useDocumentAnalysis"
    /\ \/ hook.analysis # <<>>
       \/ \E r \in 1..Len(runs) : runs[r].step = "completed"
    /\ hook' = [hook EXCEPT !.error = <<ExportFailed>>]
    /\ UNCHANGED <<serverVars, abortControllerRef, controllers, runs, storage,
                   attempt, issued, lastError>>

\* loadStoredAnalysis: if (storedAnalysis) setAnalysis(storedAnalysis)
LoadStoredAnalysis ==
    /\ req.kind = "useDocumentAnalysis"
    /\ storage # <<>>
    /\ hook' = [hook EXCEPT !.analysis = storage]
    /\ UNCHANGED <<serverVars, abortControllerRef, controllers, runs, storage,
                   attempt, issued, lastError>>

InitAnalysisHook ==
    /\ req = [kind |-> "useDocumentAnalysis"]
    /\ NoResponse
    /\ hook = [analysis |-> <<>>, loading |-> FALSE, error |-> <<>>, progress |-> 0]
    /\ abortControllerRef = 0
    /\ controllers = <<>>
    /\ runs = <<>>
    /\ storage = <<>>
    /\ attempt = 0
    /\ issued = <<>>
    /\ lastError = ""

NextAnalysisHook ==
    \/ AnalyzeDocument
    \/ StepResolves
    \/ StepRejects
    \/ VisualizationSettles
    \/ ClearAnalysis
    \/ ExportAnalysis
    \/ LoadStoredAnalysis

SpecAnalysisHook == InitAnalysisHook /\ [][NextAnalysisHook]_vars

(***************************************************************************)
(* Every route                                                             *)
(***************************************************************************)

Init == InitAnalyze \/ InitScore \/ InitFlow \/ InitClause \/ InitChat \/ InitExtract
        \/ InitSummarize \/ InitIntake \/ InitScenario \/ InitRuleBased
        \/ InitRetry \/ InitChatHook \/ InitAnalysisHook

Next ==
    \/ AnalyzeHandler
    \/ AnalyzeResponds
    \/ ScoreClauses
    \/ VisualizeHandler
    \/ VisualizeResponds
    \/ AnalyzeClause
    \/ ChatHandler
    \/ FreeAPISettles
    \/ RuleBasedAnswers
    \/ ExtractStart
    \/ ExtractSentence
    \/ ExtractFlush
    \/ ExtractFilter
    \/ SummarizeHandler
    \/ HuggingFaceSettles
    \/ FreeAPIRejects
    \/ RuleBasedResolves
    \/ ScoreSentences
    \/ SelectSentences
    \/ RetryStart
    \/ RequestResolves
    \/ RequestRejects
    \/ DelayElapses
    \/ SendMessage
    \/ ResponseArrives
    \/ ErrorArrives
    \/ ClearChat
    \/ LoadChatHistory
    \/ RenderChat
    \/ SaveMessages
    \/ AnalyzeDocument
    \/ StepResolves
    \/ StepRejects
    \/ VisualizationSettles
    \/ ClearAnalysis
    \/ ExportAnalysis
    \/ LoadStoredAnalysis

Spec == Init /\ [][Next]_vars

(***************************************************************************)
(* Claims about the chat route                                             *)
(***************************************************************************)

\* the request reached the rule-based answer
RuleBased ==
    /\ pc = "done"
    /\ req.kind = "chat"
    /\ req.question # ""
    /\ req.context # ""
    /\ req.hf = <<>>

\* the topic groups whose trigger occurs in the lower-cased question
TriggeredTopics ==
    {k \in 1..Len(questionPatterns) :
        \E t \in 1..Len(questionPatterns[k].patterns) :
            includes(toLowerCase(req.question), questionPatterns[k].patterns[t])}

\* how the answer of each topic handler starts, and what it says when it
\* finds nothing (the definitions handler says nothing)
TopicLead == <<
    "Based on the document, here are the relevant definitions:",
    "The parties involved in this agreement are:",
    "Here are the timing-related terms from the document:",
    "Here are the financial terms mentioned in the document:",
    "Here are the risk-related clauses I found:",
    "Here's what the document says about termination:",
    "Here are the key obligations mentioned in the document:",
    "Here's what the document says about warranties and guarantees:" >>

TopicNotFound == <<
    "",
    "I could not clearly identify the specific parties from the document text.",
    "I could not find specific timing or duration information in the document.",
    "I could not find specific financial terms or payment information in the document.",
    "I did not find any obvious risk-related clauses in the document, but I recommend having a legal professional review the full document.",
    "I could not find specific termination clauses in the document.",
    "I could not find specific obligations clearly stated in the document.",
    "I could not find specific warranty or guarantee clauses in the document." >>

TopicKeywords == <<
    definitionKeywords, partyKeywords, timingKeywords, financialKeywords,
    riskKeywords, terminationKeywords, obligationKeywords, warrantyKeywords >>

\* the context sentences that qualify for topic k
Qualifying(k) == topicSentences(req.context, TopicKeywords[k])

GenericAnswer(a) == startsWith(a, RelevantLead) \/ a = NotFoundAnswer

\* C8: the question goes to the first topic group, in the order definition,
\* parties, timing, financial, risk, termination, obligations, warranties,
\* one of whose triggers occurs in it; a question with 'how much' and
\* 'penalty' gets the financial answer, with the sentence that holds '$500'.
C8_FirstTopicWins ==
    RuleBased /\ TriggeredTopics # {} =>
        LET k == SetMin(TriggeredTopics)
            lq == toLowerCase(req.question)
        IN  /\ \/ startsWith(answer, TopicLead[k])
               \/ k # 1 /\ answer = TopicNotFound[k]
               \/ k = 1 /\ GenericAnswer(answer)
            /\ (includes(lq, "how much") /\ includes(lq, "penalty")) =>
                   /\ k = 4
                   /\ (\E i \in 1..Min(3, Len(Qualifying(4))) :
                           includes(Qualifying(4)[i], "$500"))
                       => /\ startsWith(answer, TopicLead[4])
                          /\ includes(answer, "$500")

\* the scenario of the spec: 'how much' and 'penalty' in the question, a
\* risk sentence with '$500' in the context
C8_Witness ==
    /\ RuleBased
    /\ req.question = "How much is the penalty fee?"
    /\ includes(req.context, "$500 penalty for late payment")
    /\ {4, 5} \subseteq TriggeredTopics
    /\ startsWith(answer, TopicLead[4])
    /\ includes(answer, "$500")

\* the selected handler found no qualifying sentence
HandlerFoundNothing ==
    /\ RuleBased
    /\ TriggeredTopics # {}
    /\ Len(Qualifying(SetMin(TriggeredTopics))) = 0

\* C9 as the spec states it: whichever handler finds nothing, the answer is
\* that of the generic keyword-overlap ranking.
C9_AsClaimed ==
    HandlerFoundNothing => answer = extractRelevantSentences(req.question, req.context)

\* C9, amended: when the selected handler finds nothing, the answer is that
\* of the generic keyword-overlap ranking for the definitions handler, and
\* the handler's own fixed message for each of the other seven.
C9_FallbackOnlyForDefinitions ==
    HandlerFoundNothing =>
        LET k == SetMin(TriggeredTopics)
        IN  IF k = 1
            THEN answer = extractRelevantSentences(req.question, req.context)
            ELSE answer = TopicNotFound[k] /\ ~GenericAnswer(answer)

\* the parties handler found nothing where the ranking has a sentence
C9_Witness ==
    /\ HandlerFoundNothing
    /\ SetMin(TriggeredTopics) = 2
    /\ answer = TopicNotFound[2]
    /\ startsWith(extractRelevantSentences(req.question, req.context), RelevantLead)

\* the tokens of the question the ranking keeps
RetainedTokens ==
    LET words == split(toLowerCase(req.question), WhiteSpace)
    IN  FilterSeq(words, {i \in 1..Len(words) :
                             Len(words[i]) > 3 /\ words[i] \notin stopWords}, 1)

\* the context sentences the ranking reads, and their overlap scores
RankedSentences == segmentSentences(req.context)

Overlap(i) ==
    Cardinality({k \in 1..Len(RetainedTokens) :
                    includes(toLowerCase(RankedSentences[i]), RetainedTokens[k])})

Overlapping == {i \in 1..Len(RankedSentences) : Overlap(i) > 0}

\* the answer quotes the sentences at the positions pick, in this order
Quotes(pick) ==
    answer = RelevantLead
             \o join([n \in 1..Len(pick) |-> trim(RankedSentences[pick[n]])], ". ")
             \o "."

\* C10: with no trigger in the question the answer quotes at most 3 context
\* sentences, each with a retained question token, by falling overlap score,
\* none left out that scores higher than a quoted one; with no overlapping
\* sentence it is the fixed message.  A rule-based answer is never empty and
\* the response is never an error.
C10_GenericRanking ==
    RuleBased =>
        /\ status = 200
        /\ trim(answer) # ""
        /\ TriggeredTopics = {} =>
               IF Overlapping = {}
               THEN answer = NotFoundAnswer
               ELSE \E pick \in SeqsOf(Overlapping, Min(3, Cardinality(Overlapping))) :
                       /\ \A a, b \in 1..Len(pick) : pick[a] = pick[b] => a = b
                       /\ Quotes(pick)
                       /\ \A n \in 1..(Len(pick) - 1) : Overlap(pick[n]) >= Overlap(pick[n + 1])
                       /\ \A i \in Overlapping :
                              (\A n \in 1..Len(pick) : pick[n] # i) =>
                                  \A n \in 1..Len(pick) : Overlap(i) <= Overlap(pick[n])

\* no trigger, four sentences that overlap: the two with two tokens of the
\* question are quoted before the first of the two with a single token, and
\* the other one is left out
C10_Witness ==
    /\ RuleBased
    /\ TriggeredTopics = {}
    /\ Cardinality(Overlapping) = 4
    /\ Overlap(1) = 1
    /\ Overlap(2) = 2
    /\ Overlap(3) = 1
    /\ Overlap(4) = 2
    /\ Quotes(<<2, 4, 1>>)

(***************************************************************************)
(* Claims about the sentence segmentation and the clause extractor         *)
(***************************************************************************)

Punctuation == Terminators \cup {",", ";", ":", "-", "(", ")"}

OnlyCharsOf(text, class) == \A i \in 1..Len(text) : CharAt(text, i) \in class

Segmented == req.kind = "extract" /\ pc # "start"

\* C11 as the claim states it: a text of white space and punctuation only
\* segments into no sentence at all.
C11_AsClaimed ==
    (Segmented /\ OnlyCharsOf(req.text, WhiteSpace \cup Punctuation))
        => segmented = <<>>

\* C11: a text (the empty one included) made only of white space and of the
\* sentence terminators . ! ? segments into the empty sequence, and the
\* clause extractor returns no clause for it.
C11_TerminatorsOnly ==
    (Segmented /\ OnlyCharsOf(req.text, WhiteSpace \cup Terminators))
        => /\ segmented = <<>>
           /\ clauses = <<>>
           /\ buffer = ""

\* a text of white space and terminators, longer than the sentence minimum,
\* has gone through the extractor
C11_Witness ==
    /\ req.kind = "extract"
    /\ pc = "done"
    /\ OnlyCharsOf(req.text, WhiteSpace \cup Terminators)
    /\ \E i \in 1..Len(req.text) : CharAt(req.text, i) \in Terminators
    /\ Len(req.text) > MinSentenceLength
    /\ segmented = <<>>

RangeOf(seq) == {seq[i] : i \in 1..Len(seq)}

\* short is long with some of its elements left out, the others unchanged
\* and in their order
RECURSIVE IsSubsequence(_, _)
IsSubsequence(short, long) ==
    IF Len(short) = 0 THEN TRUE
    ELSE IF Len(long) = 0 THEN FALSE
    ELSE IF Head(short) = Head(long) THEN IsSubsequence(Tail(short), Tail(long))
    ELSE IsSubsequence(short, Tail(long))

\* C12: every clause extractClauses returns is at least 30 characters long,
\* and the final filter only drops whole blocks: what it returns is the
\* block list with the too short blocks left out, no block cut or merged.
C12_ClausesLongEnough ==
    [][pc = "filter" =>
          /\ \A i \in 1..Len(clauses') : Len(clauses'[i]) >= 30
          /\ IsSubsequence(clauses', clauses)
          /\ \A i \in 1..Len(clauses) :
                 clauses[i] \notin RangeOf(clauses') => Len(clauses[i]) <= 30]_vars

\* extractClauses has returned some clause and has dropped the block of a
\* sentence that is in none of the returned clauses
C12_Witness ==
    /\ req.kind = "extract"
    /\ pc = "done"
    /\ Len(clauses) > 0
    /\ \E i \in 1..Len(segmented) :
           \A k \in 1..Len(clauses) : ~includes(clauses[k], trim(segmented[i]))

\* a document with no structural marker phrase and no legal keyword
LegalWords == RangeOf(clauseStarters) \cup RangeOf(legalKeywords) \cup RangeOf(importantTerms)

PlainDocument(text) ==
    LET lowerText == toLowerCase(text)
    IN  \A w \in LegalWords : ~includes(lowerText, w)

\* the '. '-join of the trimmed sentences 1..n of the segmentation
JoinedSentences(n) == join([i \in 1..n |-> trim(segmented[i])], ". ")

Extracted == req.kind = "extract" /\ pc = "done"

\* C15 as the claim states it: a plain document never gives several
\* clauses, it gives the join of all its sentences or nothing.
C15_AsClaimed ==
    (Extracted /\ PlainDocument(req.text))
        => \/ clauses = <<>>
           \/ clauses = <<JoinedSentences(Len(segmented))>>

\* C15: for a plain document whose sentences before the last one join to at
\* most 300 characters, extractClauses returns the single clause that is the
\* '. '-join of all its trimmed sentences, or the empty list when there is
\* no sentence or that join is not longer than 30 characters.
C15_SingleClauseUnderCap ==
    (/\ Extracted
     /\ PlainDocument(req.text)
     /\ Len(JoinedSentences(Len(segmented) - 1)) <= 300)
        => clauses = IF Len(JoinedSentences(Len(segmented))) > 30
                     THEN <<JoinedSentences(Len(segmented))>>
                     ELSE <<>>

\* a plain document of several sentences came back as the one joined clause
C15_Witness ==
    /\ Extracted
    /\ PlainDocument(req.text)
    /\ Len(segmented) >= 2
    /\ clauses = <<JoinedSentences(Len(segmented))>>

StartsWithMarker(sentence) ==
    \E m \in RangeOf(clauseStarters) : startsWith(toLowerCase(sentence), m)

\* C20: in one pass of the sentence loop, a marker sentence met with a
\* non-empty buffer makes the buffer a clause and starts the new buffer; met
\* with an empty buffer it is just taken into the buffer; a sentence that is
\* no marker is added to the buffer after '. ' (after nothing when the
\* buffer is empty).  No empty clause is ever emitted.  The buffer that
\* results is the one of the next pass unless it is over the 300 character
\* cap, which emits it at once.
C20_MarkerStartsClause ==
    [][(pc = "loop" /\ position <= Len(segmented)) =>
          LET sentence == trim(segmented[position])
              flush == StartsWithMarker(sentence) /\ buffer # ""
              emitted == IF flush THEN <<buffer>> ELSE <<>>
              next == IF flush \/ buffer = "" THEN sentence
                      ELSE buffer \o ". " \o sentence
          IN  /\ IF Len(next) <= 300
                 THEN clauses' = clauses \o emitted /\ buffer' = next
                 ELSE clauses' = clauses \o emitted \o <<next>> /\ buffer' = ""
              /\ \A i \in 1..Len(clauses') : clauses'[i] # ""]_vars

\* the loop has just met a marker sentence with a non-empty buffer: the
\* buffer became a clause and the marker sentence is the new buffer
C20_Witness ==
    /\ req.kind = "extract"
    /\ pc = "loop"
    /\ position > 2
    /\ StartsWithMarker(trim(segmented[position - 1]))
    /\ buffer = trim(segmented[position - 1])
    /\ Len(clauses) > 0
    /\ clauses[Len(clauses)] = JoinedSentences(position - 2)

(***************************************************************************)
(* Claims about the summarize route                                        *)
(***************************************************************************)

Summarized == req.kind = "summarize" /\ pc = "done" /\ status = 200

Extractive == Summarized /\ summaryResult.method = "extractive"

\* the sentences of a text as a reader finds them: the trimmed, non-empty
\* pieces between its runs of . ! ?
SentencesOf(text) ==
    LET pieces == split(text, Terminators)
        trimmed == [i \in 1..Len(pieces) |-> trim(pieces[i])]
    IN  SelectSeq(trimmed, LAMBDA piece : piece # "")

ContainsLegalKeyword(text) ==
    \E w \in RangeOf(legalKeywords) : includes(toLowerCase(text), w)

DocumentTypeLead == "This appears to be "

\* C13 as the claim states it: every sentence of an extractive summary is
\* a segmented sentence of the input, in the order of the input.
C13_AsClaimed ==
    Extractive =>
        LET input == segmentSentences(req.text)
        IN  IsSubsequence(SentencesOf(summaryResult.summary),
                          [i \in 1..Len(input) |-> trim(input[i])])

\* C13: apart from the leading sentence 'This appears to be <type>', which
\* is there exactly when the text holds a legal keyword, the sentences of an
\* extractive summary are segmented sentences of the input, at least one of
\* them, in the order of the input.  A text with no segmented sentence gets
\* the fixed message instead.
C13_SubsequenceAfterLead ==
    Extractive =>
        LET input == segmentSentences(req.text)
            trimmed == [i \in 1..Len(input) |-> trim(input[i])]
            quoted == SentencesOf(summaryResult.summary)
        IN  IF Len(input) = 0
            THEN summaryResult.summary = "Unable to generate summary from the provided text."
            ELSE IF ContainsLegalKeyword(req.text)
            THEN /\ Len(quoted) >= 2
                 /\ startsWith(quoted[1], DocumentTypeLead)
                 /\ IsSubsequence(Tail(quoted), trimmed)
            ELSE /\ Len(quoted) >= 1
                 /\ IsSubsequence(quoted, trimmed)

\* an extractive summary that leads with the document type and then quotes
\* two sentences out of four
C13_Witness ==
    /\ Extractive
    /\ Len(segmentSentences(req.text)) = 4
    /\ Len(SentencesOf(summaryResult.summary)) = 3
    /\ startsWith(summaryResult.summary, DocumentTypeLead)

\* the sentences an extractive summary quotes, the lead left out
QuotedSentences ==
    LET quoted == SentencesOf(summaryResult.summary)
    IN  IF ContainsLegalKeyword(req.text) /\ Len(quoted) > 0 THEN Tail(quoted) ELSE quoted

\* min(5, ceil(0.3 n)) in whole numbers
SelectionSize(n) ==
    LET ceiling == CHOOSE c \in 0..n : 10 * c >= 3 * n /\ 10 * (c - 1) < 3 * n
    IN  IF ceiling < 5 THEN ceiling ELSE 5

\* the subsets of S with k elements
RECURSIVE KSubsets(_, _)
KSubsets(S, k) ==
    IF k = 0 THEN {{}}
    ELSE UNION {{T \cup {x} : T \in KSubsets({y \in S : y > x}, k - 1)} : x \in S}

\* the elements of a set of numbers, ascending
RECURSIVE Ascending(_)
Ascending(S) ==
    IF S = {} THEN <<>> ELSE <<SetMin(S)>> \o Ascending(S \ {SetMin(S)})

\* C18: with n >= 1 segmented sentences an extractive summary quotes
\* exactly min(5, ceil(0.3 n)) of them, no sentence left out scores higher
\* than a quoted one, and the quoted sentences come by ascending index.
C18_TopSentencesInOrder ==
    Extractive =>
        LET input == segmentSentences(req.text)
            n == Len(input)
            score == [i \in 1..n |-> scoredSentence(input, i).score]
            quoted == QuotedSentences
        IN  n >= 1 =>
                /\ Len(quoted) = SelectionSize(n)
                /\ \E chosen \in KSubsets(1..n, SelectionSize(n)) :
                       /\ LET order == Ascending(chosen)
                          IN  quoted = [k \in 1..Len(order) |-> trim(input[order[k]])]
                       /\ \A i \in chosen : \A j \in (1..n) \ chosen :
                              score[j] <= score[i]

\* a summary of a document of 17 sentences, which quotes 5, and one of a
\* document of four sentences whose two quoted ones are not the first two
C18_Witness ==
    /\ Extractive
    /\ Len(segmentSentences(req.text)) = 17
    /\ Len(QuotedSentences) = 5

C18_WitnessReordered ==
    /\ Extractive
    /\ Len(segmentSentences(req.text)) = 4
    /\ LET input == segmentSentences(req.text)
       IN  QuotedSentences = <<trim(input[2]), trim(input[3])>>

\* C19 as the claim states it: the key points are the first three non-empty
\* sentences of the summary, trimmed.
C19_AsClaimed ==
    Summarized =>
        LET sentences == SentencesOf(summaryResult.summary)
        IN  summaryResult.keyPoints = SubSeq(sentences, 1, Min(3, Len(sentences)))

\* C19: the key points are the first three of the sentences of the summary
\* whose trimmed length exceeds 10, trimmed and in summary order; when the
\* summary has no such sentence they are the one placeholder.
C19_FirstLongSentences ==
    Summarized =>
        LET sentences == SentencesOf(summaryResult.summary)
            long == SelectSeq(sentences, LAMBDA sentence : Len(sentence) > 10)
        IN  summaryResult.keyPoints =
                IF Len(long) = 0 THEN <<"Summary generated successfully">>
                ELSE SubSeq(long, 1, Min(3, Len(long)))

\* a summary whose first sentence is too short to be a key point and whose
\* fourth sentence is a key point in its place
C19_Witness ==
    /\ Summarized
    /\ LET sentences == SentencesOf(summaryResult.summary)
       IN  /\ Len(sentences) >= 4
           /\ Len(sentences[1]) <= 10
           /\ summaryResult.keyPoints = <<sentences[2], sentences[3], sentences[4]>>

(***************************************************************************)
(* Claims about the validation of the request                              *)
(***************************************************************************)

\* C14: a summarize or analyze request whose text is shorter than 50
\* characters is answered 400 with nothing done for it: the handler never
\* reaches an await and at no point has it called a summarization strategy,
\* a segmentation or scoring or a clause classification, and the response
\* carries no result.
C14_RejectedBeforeWork ==
    (req.kind \in {"summarize", "analyze"} /\ Len(req.text) < 50)
        => /\ pc \in {"start", "done"}
           /\ (pc = "done" => status = 400)
           /\ calls = <<>>
           /\ clauses = <<>>
           /\ riskScore = NoScore
           /\ summaryResult = NoSummary

\* a summarize request one character short of the minimum was rejected,
\* whatever the external service would have returned
C14_Witness ==
    /\ pc = "done"
    /\ req.kind = "summarize"
    /\ Len(req.text) = 49
    /\ req.hf # <<>>
    /\ status = 400

\* texts of 50 characters and more are worked on
C14_WitnessAccepted ==
    /\ pc = "done"
    /\ Len(req.text) = 50
    /\ status = 200
    /\ calls # <<>>

(***************************************************************************)
(* Claims about the analysis of whole documents                            *)
(***************************************************************************)

\* C16: for the agreement between Acme Corp and Jane Doe the output holds a
\* clause of risk level high and a clause classified through its governing
\* law: in the analysis a clause quoting the sentence on what governs the
\* section, in the visualization a node of type governing_law or
\* dispute_resolution.
C16_ScenarioClassified ==
    (pc = "done" /\ req.text = ScenarioText) =>
        IF req.kind = "analyze"
        THEN /\ \E i \in 1..Len(clauses) : clauses[i].riskLevel = "high"
             /\ \E i \in 1..Len(clauses) : includes(toLowerCase(clauses[i].text), "govern")
        ELSE /\ \E i \in 1..Len(nodes) : nodes[i].riskLevel = "high"
             /\ \E i \in 1..Len(nodes) :
                    nodes[i].type \in {"governing_law", "dispute_resolution"}

\* what the two passes do find for that agreement: one clause, of risk
\* level high
C16_ScenarioOutcome ==
    (pc = "done" /\ req.text = ScenarioText) =>
        IF req.kind = "analyze"
        THEN Len(clauses) = 1 /\ clauses[1].riskLevel = "high"
        ELSE Len(nodes) = 1 /\ nodes[1].riskLevel = "high" /\ nodes[1].type = "liability"

SyntheticTexts == <<
    "Employment agreement detected",
    "Payment terms identified",
    "Termination provisions found" >>

\* the topics of the general analysis the lower-cased text touches
TopicTouched(k, lowerText) ==
    CASE k = 1 -> includes(lowerText, "employment") \/ includes(lowerText, "employee")
      [] k = 2 -> includes(lowerText, "payment") /\ includes(lowerText, "terms")
      [] k = 3 -> includes(lowerText, "termination")

\* C17: the general analysis runs exactly when the sentence pass emitted
\* nothing.  If some processed sentence matches a pattern set, the result
\* holds clauses of sentences only and no synthetic clause; if none does,
\* the result is the synthetic clauses of the topics the text touches, at
\* most one for each of employment, payment+terms and termination, in that
\* order.
C17_GeneralAnalysisOnlyAsFallback ==
    AnalyzeDone =>
        LET ps == ProcessedSentences(req.text)
            emitted == \E i \in 1..Len(ps) : MatchingSets(ps[i]) # {}
            lowerText == toLowerCase(req.text)
            texts == [i \in 1..Len(clauses) |-> clauses[i].text]
        IN  IF emitted
            THEN \A i \in 1..Len(texts) :
                    texts[i] \in RangeOf(ps) /\ texts[i] \notin RangeOf(SyntheticTexts)
            ELSE /\ Len(texts) <= 3
                 /\ texts = SelectSeq(SyntheticTexts,
                                      LAMBDA t : \E k \in 1..3 :
                                          SyntheticTexts[k] = t /\ TopicTouched(k, lowerText))

\* the general analysis found all three topics
C17_Witness ==
    /\ AnalyzeDone
    /\ [i \in 1..Len(clauses) |-> clauses[i].text] = SyntheticTexts

\* a document that touches a topic of the general analysis and has a
\* sentence the sentence pass emits: no synthetic clause
C17_WitnessNoFallback ==
    /\ AnalyzeDone
    /\ Len(clauses) > 0
    /\ includes(toLowerCase(req.text), "termination")
    /\ \A i \in 1..Len(clauses) : clauses[i].text \notin RangeOf(SyntheticTexts)

(***************************************************************************)
(* C21: in extractClauses the buffer never carries more than 300           *)
(* characters into the next sentence: when a pass of the loop leaves more  *)
(* than 300 characters in it (after the sentence was added, or after a     *)
(* marker sentence started a new buffer), that pass emits the buffer as    *)
(* the last clause and empties it, marker or not.                          *)
(***************************************************************************)
C21_BufferCapped ==
    [][(pc = "loop" /\ pc' = "loop" /\ position' = position + 1) =>
        LET sentence == trim(segmented[position])
            carried == IF isClauseStart(sentence) /\ Len(buffer) > 0
                       THEN sentence
                       ELSE buffer \o (IF buffer # "" THEN ". " ELSE "") \o sentence
        IN  /\ Len(buffer) <= 300
            /\ Len(buffer') <= 300
            /\ Len(carried) > 300 =>
                   /\ buffer' = ""
                   /\ Len(clauses') > 0
                   /\ clauses'[Len(clauses')] = trim(carried)
            /\ Len(carried) <= 300 => buffer' = carried]_vars

\* the loop has flushed one buffer that grew past the cap without a marker
\* and has just flushed a new buffer that a marker sentence started
C21_Witness ==
    /\ pc = "loop"
    /\ position > 1
    /\ buffer = ""
    /\ \E i \in 1..Len(clauses) :
           Len(clauses[i]) > 300 /\ ~isClauseStart(clauses[i])
    /\ Len(clauses) > 1
    /\ clauses[Len(clauses)] = trim(segmented[position - 1])
    /\ isClauseStart(clauses[Len(clauses)])
    /\ Len(clauses[Len(clauses)]) > 300
    /\ clauses[Len(clauses) - 1] = trim(segmented[position - 2])

(***************************************************************************)
(* C28: before the final length filter extractClauses loses and            *)
(* duplicates no sentence: the sentences of the clause blocks, block after *)
(* block, are the segmented sentences in their order, each one in exactly  *)
(* one block; and the filter leaves out whole blocks only.                 *)
(***************************************************************************)
RECURSIVE Flatten(_)
Flatten(seqs) ==
    IF Len(seqs) = 0 THEN <<>> ELSE Head(seqs) \o Flatten(Tail(seqs))

\* the sentences the loop has trimmed and consumed
TrimmedSentences == [i \in 1..Len(segmented) |-> trim(segmented[i])]

C28_NoSentenceLostOrDuplicated ==
    [][(pc = "filter" /\ pc' = "done") =>
        /\ Flatten([b \in 1..Len(clauses) |-> SentencesOf(clauses[b])])
               = TrimmedSentences
        /\ \A b \in 1..Len(clauses) : SentencesOf(clauses[b]) # <<>>
        /\ IsSubsequence(clauses', clauses)
        /\ \A b \in 1..Len(clauses) :
               Len(clauses[b]) > 30 => clauses[b] \in RangeOf(clauses')]_vars

\* a document of more sentences than blocks, one block of which the filter
\* has left out
C28_Witness ==
    /\ pc = "done"
    /\ req.kind = "extract"
    /\ Len(clauses) >= 1
    /\ Len(clauses) < Len(clauseBlocks(req.text))
    /\ Len(clauseBlocks(req.text)) >= 2
    /\ Len(segmented) > Len(clauseBlocks(req.text))

(***************************************************************************)
(* C23: after generateFlowData the connections of a node are the 'to' ids  *)
(* of the relationships that start at it, in the order they were emitted;  *)
(* nothing is recorded at the target, so a node is connected to later      *)
(* clauses only and the last node to none.                                 *)
(***************************************************************************)
\* the 'to' ids of the relationships from the node of this id, in their order
TargetsOf(id) ==
    LET outgoing == SelectSeq(relationships, LAMBDA rel : rel.from = id)
    IN  [a \in 1..Len(outgoing) |-> outgoing[a].to]

C23_ConnectionsFollowRelationships ==
    FlowDone =>
        /\ \A n \in 1..Len(nodes) :
               /\ nodes[n].connections = TargetsOf(nodes[n].id)
               /\ \A c \in 1..Len(nodes[n].connections) :
                      \E m \in 1..Len(nodes) :
                          m > n /\ nodes[m].id = nodes[n].connections[c]
        /\ Len(nodes) > 0 => nodes[Len(nodes)].connections = <<>>

\* three clauses, the first connected to the two later ones in the order
\* of the relationships, the second to the third
C23_Witness ==
    /\ FlowDone
    /\ Len(nodes) = 3
    /\ nodes[1].connections = <<nodes[2].id, nodes[3].id>>
    /\ nodes[2].connections = <<nodes[3].id>>
    /\ nodes[3].connections = <<>>
    /\ Len(relationships) = 3

(***************************************************************************)
(* C29: for a non-empty clause list with risk levels high/medium/low and   *)
(* types risk/neutral/positive, calculateOverallRiskScore returns a value  *)
(* from 5 to 90: the clamp to 0..100 changes nothing (the result is the    *)
(* rounded weighted average itself) and 0 and 100 are never returned.      *)
(***************************************************************************)
C29_ScoreWithinFiveAndNinety ==
    (ScoreDone /\ Len(clauses) > 0) =>
        LET I == 1..Len(clauses)
            total == SumOver([i \in I |-> SpecScoreOf(clauses[i]) * SpecWeightOf(clauses[i])], I)
            weight == SumOver([i \in I |-> SpecWeightOf(clauses[i])], I)
        IN  /\ riskScore >= 5
            /\ riskScore <= 90
            /\ riskScore \notin {0, 100}
            /\ 2 * riskScore * weight <= 2 * total + weight
            /\ 2 * total + weight < 2 * (riskScore + 1) * weight

\* the two ends: a list of low positive clauses only scores 5
C29_Witness ==
    /\ ScoreDone
    /\ Len(clauses) >= 2
    /\ \A i \in 1..Len(clauses) :
           clauses[i].riskLevel = "low" /\ clauses[i].type = "positive"
    /\ riskScore = 5

(***************************************************************************)
(* C30: every clause of the analysis (sentence pass or general fallback)   *)
(* has its type and risk level among (risk, high), (risk, medium),         *)
(* (positive, low), (neutral, low), (neutral, medium): never the level     *)
(* 'positive', type positive only at level low, level high only for type   *)
(* risk.                                                                   *)
(***************************************************************************)
EmittedPairs == {
    <<"risk", "high">>, <<"risk", "medium">>, <<"positive", "low">>,
    <<"neutral", "low">>, <<"neutral", "medium">> }

C30_TypeAndLevelPairs ==
    AnalyzeDone =>
        \A i \in 1..Len(clauses) :
            /\ <<clauses[i].type, clauses[i].riskLevel>> \in EmittedPairs
            /\ clauses[i].riskLevel # "positive"
            /\ clauses[i].type = "positive" => clauses[i].riskLevel = "low"
            /\ clauses[i].riskLevel = "high" => clauses[i].type = "risk"

\* the sentence pass has emitted a favourable clause and a high-risk one
C30_Witness ==
    /\ AnalyzeDone
    /\ \E i, j \in 1..Len(clauses) :
           /\ clauses[i].type = "positive" /\ clauses[i].riskLevel = "low"
           /\ clauses[j].type = "risk" /\ clauses[j].riskLevel = "high"
    /\ analyzeSentences(segmentSentences(req.text)) = clauses

\* the fallback has emitted its neutral and its risk clause, both medium
C30_WitnessFallback ==
    /\ AnalyzeDone
    /\ analyzeSentences(segmentSentences(req.text)) = <<>>
    /\ \E i, j \in 1..Len(clauses) :
           /\ clauses[i].type = "neutral" /\ clauses[i].riskLevel = "medium"
           /\ clauses[j].type = "risk" /\ clauses[j].riskLevel = "medium"

(***************************************************************************)
(* C25: for a text of at least 50 characters the summarize handler answers *)
(* 200 with a non-empty summary whenever ruleBasedSummarization returns a  *)
(* non-empty string, whatever the AI strategies did (threw, timed out, or  *)
(* returned an empty summary without an error); it answers 500 only when   *)
(* all three strategies were tried and failed.                             *)
(***************************************************************************)
C25_FallsBackWheneverPossible ==
    (req.kind = "summarize" /\ pc = "done" /\ Len(req.text) >= 50) =>
        /\ trim(ruleBasedSummarization(req.text)) # "" =>
               /\ status = 200
               /\ summaryResult.summary # ""
        /\ status = 500 =>
               /\ req.hf = <<>>
               /\ "ruleBasedSummarization" \in RangeOf(calls)

\* what the handler does when HuggingFace answers with an empty summary:
\* 500, the rule-based summarizer never called
C25_EmptyAnswerEndsInError ==
    (req.kind = "summarize" /\ pc = "done" /\ Len(req.text) >= 50
     /\ req.hf # <<>> /\ trim(req.hf[1]) = "") =>
        /\ status = 500
        /\ calls = <<"summarizeWithHuggingFace">>

(***************************************************************************)
(* C22: the score the summarizer gives a sentence                          *)
(***************************************************************************)
\* how many times the word occurs in the text
Occurrences(text, word) ==
    Cardinality({p \in 1..(Len(text) - Len(word) + 1) :
                    SubSeq(text, p, p + Len(word) - 1) = word})

PositionBonus(i) == IF i = 1 \/ i = Len(segmented) THEN 3 ELSE 0

LengthBonus(i) == IF Len(segmented[i]) > 50 /\ Len(segmented[i]) < 200 THEN 1 ELSE 0

\* C22 as the claim states it: the score is 2 for each occurrence of a
\* legal keyword in the sentence (a keyword occurring twice counts twice),
\* plus 3 for the first or last sentence (once for a single sentence), plus
\* 1 for a length strictly between 50 and 200.
C22_AsClaimed ==
    (req.kind = "ruleBased" /\ pc = "scored") =>
        \A i \in 1..Len(scored) :
            scored[i].score =
                2 * SumOver([k \in 1..Len(legalKeywords) |->
                                Occurrences(toLowerCase(segmented[i]), legalKeywords[k])],
                            1..Len(legalKeywords))
                + PositionBonus(i) + LengthBonus(i)

\* C22: the score of a sentence is 2 for each legal keyword that occurs in
\* it, however often it occurs, plus 3 if the sentence is the first or the
\* last segmented sentence (once for a single sentence), plus 1 if the
\* length of the segmented sentence, before trimming, is strictly between
\* 50 and 200.
C22_ScorePerKeyword ==
    (req.kind = "ruleBased" /\ pc = "scored") =>
        /\ Len(scored) = Len(segmented)
        /\ \A i \in 1..Len(scored) :
               scored[i].score =
                   2 * Cardinality({w \in RangeOf(legalKeywords) :
                                       Occurrences(toLowerCase(segmented[i]), w) > 0})
                   + PositionBonus(i) + LengthBonus(i)

\* a single sentence that holds one keyword twice: 2 for the keyword and 3
\* for the position
C22_Witness ==
    /\ req.kind = "ruleBased"
    /\ pc = "scored"
    /\ Len(scored) = 1
    /\ Occurrences(toLowerCase(segmented[1]), "payment") = 2
    /\ scored[1].score = 5

\* three sentences: the middle one has four keywords and, with its leading
\* blank, a medium length, and no position bonus
C22_WitnessMiddle ==
    /\ req.kind = "ruleBased"
    /\ pc = "scored"
    /\ Len(scored) = 3
    /\ scored[2].score = 9
    /\ scored[1].score = 3
    /\ Len(segmented[1]) = 50

(***************************************************************************)
(* C24: extractText retries the OCR request at most twice: after a failed  *)
(* first attempt the request is issued up to two more times, its error     *)
(* reaches the caller only when the first attempt and both retries have    *)
(* failed, and a successful attempt ends the sequence at once.             *)
(***************************************************************************)
OcrCall == req.kind = "retry" /\ req.api = "extractText"

C24_TwoRetriesBeforeError ==
    OcrCall =>
        /\ Len(issued) <= 3
        /\ pc = "rejected" =>
               /\ Len(issued) = 3
               /\ \A a \in 1..3 : issued[a] \in RequestErrors
        /\ pc = "resolved" =>
               /\ issued[Len(issued)] = "ok"
               /\ \A a \in 1..(Len(issued) - 1) : issued[a] \in RequestErrors
        /\ (Len(issued) > 0 /\ issued[Len(issued)] = "ok") => pc = "resolved"

\* what retry(fn, 2, 2000) does: the error of the second failed request
\* reaches the caller, after one retry
C24_OneRetryBeforeError ==
    OcrCall =>
        /\ Len(issued) <= 2
        /\ pc = "rejected" =>
               /\ Len(issued) = 2
               /\ \A a \in 1..2 : issued[a] \in RequestErrors
               /\ lastError = issued[2]
        /\ pc = "resolved" => issued[Len(issued)] = "ok"

(***************************************************************************)
(* C26: in useChat, once clearChat() was called while a chat request was   *)
(* in flight, neither the response nor the error of that request is        *)
(* appended to messages afterwards, in any interleaving, a new message     *)
(* sent between the clear and the arrival included.                        *)
(***************************************************************************)
\* clearChat empties messages when it marks the pending requests, so an
\* assistant message of a marked request was appended after the clear
\* (request 0 is a message of the stored history)
C26_ClearedRequestStaysSilent ==
    req.kind = "useChat" =>
        \A i \in 1..Len(hook.messages) :
            (hook.messages[i].role = "assistant" /\ hook.messages[i].request # 0) =>
                ~runs[hook.messages[i].request].cleared

\* the interleaving without a new message: the answer of the cleared
\* request has arrived and was dropped
C26_DroppedWithoutNewMessage ==
    /\ req.kind = "useChat"
    /\ Len(runs) = 1
    /\ runs[1].cleared
    /\ runs[1].state = "settled"
    /\ hook.messages = <<>>

(***************************************************************************)
(* C27: in useDocumentAnalysis, once clearAnalysis() was called during a   *)
(* run of analyzeDocument, that run neither sets analysis to its result    *)
(* nor writes the result to session storage afterwards, whichever step     *)
(* (OCR, summarization, risk analysis, visualization) was pending.         *)
(***************************************************************************)
\* clearAnalysis sets analysis to null and removes the stored result when
\* it marks the runs in flight, so a result of a marked run was set or
\* stored after the clear
C27_ClearedRunSetsNothing ==
    req.kind = "useDocumentAnalysis" =>
        /\ hook.analysis # <<>> => ~runs[hook.analysis[1].id].cleared
        /\ storage # <<>> => ~runs[storage[1].id].cleared

\* a clear while the OCR request of the only run was pending: the run has
\* ended with 'Analysis cancelled' and has set nothing
C27_CancelledAtOcr ==
    /\ req.kind = "useDocumentAnalysis"
    /\ Len(runs) = 1
    /\ runs[1].cleared
    /\ runs[1].step = "settled"
    /\ hook.error = <<AnalysisCancelled>>
    /\ hook.analysis = <<>>
    /\ storage = <<>>

====
